---- MODULE Spec2Model ----
(***************************************************************************)
(* A model of convex-vite-plugin: the Vite plugin that supervises a local  *)
(* Convex backend (packages/convex-vite-plugin/src).                       *)
(*                                                                         *)
(* The module holds several state machines over disjoint variable groups:  *)
(*   Spec / SpecSync  the plugin closure of convexLocal(): the startup     *)
(*                    coroutine startBackendInit, the file watcher, the    *)
(*                    debounce timer and the deploy coordinator;           *)
(*   SpecDebounce     debounce(fn, delay) of utils.ts against a clock;     *)
(*   SpecHealth       waitForHttpOk of utils.ts as healthCheck calls it,   *)
(*                    in milliseconds;                                     *)
(*   SpecKeys         the key resolution of startBackendInit over the      *)
(*                    state directory and its keys.json, start after start;*)
(*   SpecStateId      computeStateId of utils.ts over git results, project *)
(*                    directories and suffixes (strings are sequences of   *)
(*                    one-character strings);                              *)
(*   SpecBinary       downloadConvexBinary of utils.ts over the binary     *)
(*                    cache directory and the release index;               *)
(*   SpecBackend      one ConvexBackend object of backend.ts and the calls *)
(*                    of its methods;                                      *)
(*   SpecAdminKey     the admin-key functions of keys.ts, one call;        *)
(*   SpecLifecycle    plugin instances, dev servers and the signal         *)
(*                    handlers of the Node process;                        *)
(*   SpecIgnore       isIgnored of the lint rule, one call;                *)
(*   SpecAsset        findAsset of utils.ts over release indexes, one call;*)
(*   SpecVarint       encodeVarint of keys.ts, one call;                   *)
(*   SpecWatch        shouldWatch of the plugin under the default patterns,*)
(*                    one call;                                            *)
(*   SpecLive         Spec with the fairness of Node's timers and of the   *)
(*                    deploy subprocess.                                   *)
(* Each specification leaves the other groups unchanged.                   *)
(***************************************************************************)
EXTENDS Integers, Sequences, FiniteSets, TLC

VARIABLES
    \* ---- options of convexLocal(options), fixed for a plugin instance
    nEnv,           \* number of entries of options.envVars
    envIsFn,        \* options.envVars is a function (awaited) rather than an object
    nFn,            \* options.onReady.length
    deployBlocks,   \* backend.deploy() blocks the event loop while it runs
    \* ---- the plugin closure and the startBackendInit coroutine
    pc,             \* position of startBackendInit (its pending await)
    envIdx,         \* index of the setEnv call being awaited
    fnIdx,          \* index of the runFunction call being awaited
    backendPort,    \* backend?.port is set
    processAlive,   \* the spawned backend child process is alive
    isDeploying,    \* let isDeploying
    pendingDeploy,  \* let pendingDeploy
    timeoutId,      \* debounce's timeoutId: "null", "pending" or "fired"
    inProgress,     \* number of backend.deploy() invocations that have not returned
    executor,       \* the caller whose deploy() is inside backend.deploy()
    \* ---- history, read only by the properties
    steps,          \* the startup steps in the order they happened
    reqInFlight,    \* deploy() requests made since the running backend.deploy() began
    lastReq,        \* what the latest deploy() request found and did
    lastReturn,     \* what the latest return of backend.deploy() found and did
    unserved,       \* a watched change came with the port set; no deploy began since
    \* ---- debounce(fn, delay) against a clock (SpecDebounce)
    dbDelay,        \* the delay argument, in clock ticks
    dbNow,          \* the clock
    dbTimeoutId,    \* let timeoutId: -1 for null, else the timer it names
    dbTimers,       \* timers set and neither cleared nor fired, by expiry time
    dbCalls,        \* history: calls of the debounced function so far
    dbLastCall,     \* history: time of the latest call (-1: none)
    dbBursts,       \* history: bursts so far (a call >= delay after the last starts one)
    dbBurstCalls,   \* history: calls in the current burst
    dbRuns,         \* history: runs of fn so far
    dbRunsSinceCall,\* history: runs of fn since the latest call
    dbLastRun,      \* history: the latest run of fn
    \* ---- waitForHttpOk(url, timeoutMs) under startBackend (SpecHealth)
    hcTimeout,      \* timeoutMs
    hcHasPid,       \* this.process.pid is set after the spawn
    hcNow,          \* Date.now(), in ms since the model's start
    hcDeadline,     \* const deadline
    hcAttempts,     \* let attempts
    hcPc,           \* "idle", "probe" (await fetch), "sleep", "returned", "timedOut"
    hcWake,         \* expiry time of the setTimeout being awaited
    hcCaller,       \* startBackend: "pending", "resolved", "timeout", "nopid"
    hcStatus,       \* history: status of the latest probe (0: fetch rejected)
    hcLastProbe,    \* history: how long the latest probe took
    hcLastLate,     \* history: how late the latest timer fired
    \* ---- key resolution over the state directory (SpecKeys)
    ksDir,          \* fs.existsSync(backendDir)
    ksFile,         \* keys.json: absent, unreadable, or the keys it holds
    ksFresh,        \* number of generateKeyPair calls so far (fresh randomness)
    ksKeys,         \* let keys: what the ConvexBackend is constructed with
    ksStarts,       \* history: number of startups so far
    ksLast,         \* history: the latest startup, what it found and did
    ksRun,          \* history: keys of the startups since the latest reset or damage
    ksRunNoReset,   \* history: keys of the startups since the latest reset
    \* ---- computeStateId(projectDir, suffix) (SpecStateId)
    sidCalls,       \* number of computeStateId calls so far
    sidLast,        \* history: the latest call, its inputs and its result
    sidPrev,        \* history: the call before it
    \* ---- downloadConvexBinary over the cache directory (SpecBinary)
    bcWindows,      \* process.platform === "win32"
    bcNow,          \* Date.now(), in clock ticks
    bcCache,        \* the files of binaryDir: name -> mtime (-1: no such file)
    bcLast,         \* history: the latest downloadConvexBinary call
    \* ---- a ConvexBackend object (SpecBackend)
    beObj,          \* its fields: port, siteProxyPort, process (spawned, pid)
    beChildAlive,   \* the spawned child process is running
    beDirExists,    \* this.backendDir exists on disk
    beLast,         \* history: the latest method call
    \* ---- generateAdminKey (SpecAdminKey)
    akLast,         \* history: the latest generateAdminKey call
    \* ---- plugin instances within host processes (SpecLifecycle)
    lcPlugin,       \* which convexLocal: "backend.ts" or "index.ts"
    lcHost,         \* the host (Vite) process: "running" or "exited"
    lcHosts,        \* host processes started so far
    lcInstances,    \* plugin instances created so far; the latest is current
    lcReset,        \* options.reset of the current instance
    lcHook,         \* how far the hooks of the current instance have run
    lcBackends,     \* per instance: its backend variable (set, pid; 0: no pid)
    lcRunning,      \* module-level runningBackend: its pid, 0 for null
    lcExitRegistered, \* module-level exitHandlersRegistered
    lcSigint,       \* SIGINT handlers registered on process, by instance
    lcSigterm,      \* SIGTERM handlers registered on process, by instance
    lcServers,      \* instances whose Vite server is open
    lcAlive,        \* pids of the backend children that run
    lcKillQueue,    \* pids a setImmediate callback is about to SIGKILL
    lcDirExists,    \* .convex/<state-id> exists
    lcRemovals,     \* history: removals of .convex/<state-id>, by path
    lcSeen,         \* history: kill and close paths taken so far
    lcPort,         \* the backend port of the current instance (0: not chosen)
    lcSiteProxyPort, \* its site-proxy port (0: not chosen)
    lcLate,         \* replaced instances whose startBackendInit timer is pending
    \* ---- isIgnored of the lint rule (SpecIgnore)
    igLast,         \* history: the latest isIgnored call
    \* ---- findAsset (SpecAsset)
    faLast,         \* history: the latest findAsset call
    \* ---- encodeVarint (SpecVarint)
    viLast,         \* history: the latest encodeVarint call
    \* ---- shouldWatch of the plugin (SpecWatch)
    swLast          \* history: the latest shouldWatch call

optVars == <<nEnv, envIsFn, nFn, deployBlocks>>
pluginVars == <<pc, envIdx, fnIdx, backendPort, processAlive, isDeploying,
                pendingDeploy, timeoutId, inProgress, executor>>
histVars == <<steps, reqInFlight, lastReq, lastReturn, unserved>>

debounceVars == <<dbDelay, dbNow, dbTimeoutId, dbTimers, dbCalls, dbLastCall,
                  dbBursts, dbBurstCalls, dbRuns, dbRunsSinceCall, dbLastRun>>

healthVars == <<hcTimeout, hcHasPid, hcNow, hcDeadline, hcAttempts, hcPc, hcWake,
                hcCaller, hcStatus, hcLastProbe, hcLastLate>>

keysVars == <<ksDir, ksFile, ksFresh, ksKeys, ksStarts, ksLast, ksRun, ksRunNoReset>>

stateIdVars == <<sidCalls, sidLast, sidPrev>>

binaryVars == <<bcWindows, bcNow, bcCache, bcLast>>
backendVars == <<beObj, beChildAlive, beDirExists, beLast>>
adminKeyVars == <<akLast>>
lifeVars == <<lcPlugin, lcHost, lcHosts, lcInstances, lcReset, lcHook, lcBackends,
              lcRunning, lcExitRegistered, lcSigint, lcSigterm, lcServers, lcAlive,
              lcKillQueue, lcDirExists, lcRemovals, lcSeen, lcPort,
              lcSiteProxyPort, lcLate>>
ignoreVars == <<igLast>>
assetVars == <<faLast>>
varintVars == <<viLast>>
watchVars == <<swLast>>

vars == <<optVars, pluginVars, histVars, debounceVars, healthVars, keysVars,
          stateIdVars, binaryVars, backendVars, adminKeyVars, lifeVars, ignoreVars,
    assetVars, varintVars, watchVars>>

\* What the plugin machine leaves alone.
notPlugin == <<debounceVars, healthVars, keysVars, stateIdVars,
    binaryVars, backendVars, adminKeyVars, lifeVars, ignoreVars,
    assetVars, varintVars, watchVars>>

\* ---------------------------------------------------------------- bounds
MaxEnv == 2
MaxFns == 2
MaxReq == 3
MaxDelay == 3
MaxTime == 6
MaxCalls == 4
ShortTimeout == 1000
MaxProbe == 120
MaxLate == 15
MaxStarts == 3
MaxComputes == 2
MaxClock == 3
MaxTtl == 2
MaxReleases == 3
MaxVarint == 300

\* ------------------------------------------------------------- constants
HealthCheckTimeout == 10000
BackoffBase == 200

\* ------------------------------------------------- the plugin as a record
\* The closure's mutable state, gathered so that the code's straight-line
\* sequences (a continuation that runs until its next await) compose.
Cur ==
    [pc |-> pc, envIdx |-> envIdx, fnIdx |-> fnIdx, backendPort |-> backendPort,
     processAlive |-> processAlive, isDeploying |-> isDeploying,
     pendingDeploy |-> pendingDeploy, inProgress |-> inProgress,
     executor |-> executor, steps |-> steps, reqInFlight |-> reqInFlight,
     lastReq |-> lastReq, unserved |-> unserved]

SetPlugin(s) ==
    /\ pc' = s.pc
    /\ envIdx' = s.envIdx
    /\ fnIdx' = s.fnIdx
    /\ backendPort' = s.backendPort
    /\ processAlive' = s.processAlive
    /\ isDeploying' = s.isDeploying
    /\ pendingDeploy' = s.pendingDeploy
    /\ inProgress' = s.inProgress
    /\ executor' = s.executor
    /\ steps' = s.steps
    /\ reqInFlight' = s.reqInFlight
    /\ lastReq' = s.lastReq
    /\ unserved' = s.unserved

Log(s, e) == [s EXCEPT !.steps = Append(@, e)]

NoReq == [made |-> FALSE, port |-> FALSE, inFlight |-> FALSE,
          started |-> FALSE, pendingAfter |-> FALSE, afterFailure |-> FALSE,
          onlyPending |-> FALSE]
NoReturn == [made |-> FALSE, ok |-> TRUE, n |-> 0, started |-> 0,
             pendingAfter |-> FALSE, isDeployingAfter |-> FALSE,
             aliveBefore |-> FALSE, aliveAfter |-> FALSE, by |-> "none",
             pcBefore |-> "waiting", pcAfter |-> "waiting"]

\* backend.deploy() as ConvexBackend has it in backend.ts: spawnSync, which
\* returns when the deploy subprocess has exited.
SyncDeploy == TRUE

\* backend.deploy() as a suspension point of the event loop ("deploy
\* subprocess execution" in the specification's list of suspension points):
\* handlers run while the subprocess does.
SuspendingDeploy == FALSE

\* The event loop runs no handler while a blocking backend.deploy() runs.
Blocked == deployBlocks /\ inProgress > 0

\* ------------------------------------------------- the deploy coordinator
\* deploy() without the isDeploying test.
deployNoGuard(s, caller) ==
    IF ~s.backendPort THEN s
    ELSE [s EXCEPT !.isDeploying = TRUE, !.inProgress = @ + 1,
                   !.executor = caller]

\* deploy() that starts backend.deploy() although one is running, and notes
\* the request as pending too.
deployEager(s, caller) ==
    IF ~s.backendPort THEN s
    ELSE [s EXCEPT !.pendingDeploy = s.isDeploying, !.isDeploying = TRUE,
                   !.inProgress = @ + 1, !.executor = caller]

\* deploy(), from its entry to the call of backend.deploy().
deploy(s, caller) ==
    IF ~s.backendPort THEN s
    ELSE IF s.isDeploying THEN [s EXCEPT !.pendingDeploy = TRUE]
    ELSE [s EXCEPT !.isDeploying = TRUE, !.inProgress = @ + 1,
                   !.executor = caller, !.unserved = FALSE]

\* A deploy() request by a caller of the coordinator (the debounce timer or
\* startBackendInit), with the history of what it found and did.
request(s, caller) ==
    LET r == deploy(s, caller)
    IN  [r EXCEPT
          !.lastReq = [made |-> TRUE,
                       port |-> s.backendPort,
                       inFlight |-> s.inProgress > 0,
                       started |-> r.inProgress > s.inProgress,
                       pendingAfter |-> r.pendingDeploy,
                       afterFailure |-> lastReturn.made /\ ~lastReturn.ok,
                       onlyPending |->
                           [r EXCEPT !.pendingDeploy = s.pendingDeploy] = s],
          !.reqInFlight = IF s.inProgress > 0
                          THEN (IF @ < MaxReq THEN @ + 1 ELSE @)
                          ELSE 0]

\* The onReady loop from function j on, up to its next await.
runOnReady(s, j) ==
    IF j <= nFn
    THEN Log([s EXCEPT !.pc = "fn", !.fnIdx = j], <<"fnCall", j>>)
    ELSE Log([s EXCEPT !.pc = "ready"], <<"ready", 0>>)

\* startBackendInit without its deploy() call.
initialDeploySkipped(s) == runOnReady(s, 1)

\* "Initial deploy": the deploy() call of startBackendInit and, when deploy()
\* returns at once, the continuation after it.
initialDeploy(s) ==
    LET s1 == Log(s, <<"deployCall", 0>>)
        d == request(s1, "startup")
    IN  IF d.inProgress > s1.inProgress
        THEN Log([d EXCEPT !.pc = "deploy"], <<"backendDeploy", 0>>)
        ELSE runOnReady(Log(d, <<"deployReturn", 0>>), 1)

\* The envVars loop from entry i on, up to its next await.
setEnvLoop(s, i) ==
    IF i <= nEnv
    THEN Log([s EXCEPT !.pc = "env", !.envIdx = i], <<"setEnv", i>>)
    ELSE initialDeploy(s)

\* The finally block without "pendingDeploy = false".
deployReturnKeepPending(s, ok) ==
    LET s1 == [s EXCEPT !.isDeploying = FALSE, !.inProgress = @ - 1]
        s2 == IF s1.pendingDeploy THEN deploy(s1, s.executor) ELSE s1
    IN  IF s2.inProgress > 0 THEN s2
        ELSE LET s3 == [s2 EXCEPT !.executor = "none"]
             IN  IF s.executor = "startup"
                 THEN runOnReady(Log(s3, <<"deployReturn", 0>>), 1)
                 ELSE s3

\* deploy() without try/catch/finally: a throw of backend.deploy() leaves
\* isDeploying set and reaches the caller.
deployReturnThrows(s, ok) ==
    LET s1 == [s EXCEPT !.isDeploying = ~ok, !.inProgress = @ - 1]
        s2 == IF ok /\ s1.pendingDeploy
              THEN deploy([s1 EXCEPT !.pendingDeploy = FALSE], s.executor)
              ELSE s1
    IN  IF s2.inProgress > 0 THEN s2
        ELSE LET s3 == [s2 EXCEPT !.executor = "none"]
             IN  IF s.executor = "startup"
                 THEN (IF ok THEN runOnReady(Log(s3, <<"deployReturn", 0>>), 1)
                       ELSE Log([s3 EXCEPT !.pc = "failed"], <<"failed", 0>>))
                 ELSE s3

\* The finally block without "isDeploying = false".
deployReturnKeepsDeploying(s, ok) ==
    LET s1 == [s EXCEPT !.inProgress = @ - 1]
        s2 == IF s1.pendingDeploy
              THEN deploy([s1 EXCEPT !.pendingDeploy = FALSE], s.executor)
              ELSE s1
    IN  IF s2.inProgress > 0 THEN s2
        ELSE LET s3 == [s2 EXCEPT !.executor = "none"]
             IN  IF s.executor = "startup"
                 THEN runOnReady(Log(s3, <<"deployReturn", 0>>), 1)
                 ELSE s3

\* backend.deploy() returns (ok) or throws (~ok): catch, finally, the
\* trailing deploy() and the return to the caller of deploy().
deployReturn(s, ok) ==
    LET s1 == [s EXCEPT !.isDeploying = FALSE, !.inProgress = @ - 1]
        s2 == IF s1.pendingDeploy
              THEN deploy([s1 EXCEPT !.pendingDeploy = FALSE], s.executor)
              ELSE s1
    IN  IF s2.inProgress > 0 THEN s2
        ELSE LET s3 == [s2 EXCEPT !.executor = "none"]
             IN  IF s.executor = "startup"
                 THEN runOnReady(Log(s3, <<"deployReturn", 0>>), 1)
                 ELSE s3

initFailed(s) == Log([s EXCEPT !.pc = "failed"], <<"failed", 0>>)

\* ---------------------------------------------------------------- actions
\* The closure right after convexLocal(options) and configureServer.
InitPlugin ==
    /\ pc = "waiting"
    /\ envIdx = 0
    /\ fnIdx = 0
    /\ backendPort = FALSE
    /\ processAlive = FALSE
    /\ isDeploying = FALSE
    /\ pendingDeploy = FALSE
    /\ timeoutId = "null"
    /\ inProgress = 0
    /\ executor = "none"
    /\ steps = <<>>
    /\ reqInFlight = 0
    /\ lastReq = NoReq
    /\ lastReturn = NoReturn
    /\ unserved = FALSE

NoRun == [made |-> FALSE, at |-> 0, lastCall |-> 0, calls |-> 0]

\* debounce(fn, delay) right after it is created; never called.
InitDebounce ==
    /\ dbNow = 0
    /\ dbTimeoutId = -1
    /\ dbTimers = {}
    /\ dbCalls = 0
    /\ dbLastCall = -1
    /\ dbBursts = 0
    /\ dbBurstCalls = 0
    /\ dbRuns = 0
    /\ dbRunsSinceCall = 0
    /\ dbLastRun = NoRun

\* startBackend before it awaits healthCheck().
InitHealth ==
    /\ hcNow = 0
    /\ hcDeadline = 0
    /\ hcAttempts = 0
    /\ hcPc = "idle"
    /\ hcWake = 0
    /\ hcCaller = "pending"
    /\ hcStatus = 0
    /\ hcLastProbe = 0
    /\ hcLastLate = 0

Undefined == <<"undefined", 0>>
NoKeys == [instanceName |-> "", instanceSecret |-> Undefined, adminKey |-> Undefined]
NoFile == [kind |-> "absent", keys |-> NoKeys]
NoStart == [made |-> FALSE, reset |-> FALSE, instanceName |-> "undefined",
            instanceSecret |-> Undefined, adminKey |-> Undefined,
            dirBefore |-> FALSE, fileBefore |-> NoFile, fileAfter |-> NoFile,
            wrote |-> FALSE,
            generated |-> FALSE, removed |-> FALSE, threw |-> FALSE]

NoCall == [made |-> FALSE, branch |-> <<>>, projectDir |-> <<>>,
           suffix |-> [defined |-> FALSE, value |-> <<>>], input |-> <<>>,
           id |-> <<>>, git |-> [status |-> 0, stdout |-> <<>>]]

\* Before computeStateId is called.
InitStateId ==
    /\ sidCalls = 0
    /\ sidLast = NoCall
    /\ sidPrev = NoCall

\* Release tags of get-convex/convex-backend, as token sequences: the
\* releases that carry binaries are tagged precompiled-<date>-<commit>.
Tags == {<<"precompiled-", "1">>, <<"precompiled-", "2">>}

\* `convex-local-backend-${version}${isWindows ? ".exe" : ""}`
BinaryName(version, windows) ==
    <<"convex-local-backend-">> \o version \o <<IF windows THEN ".exe" ELSE "">>

\* asset.name of the platform's asset: the zip downloadFile writes.
ZipName == <<"convex-local-backend-", "x86_64-unknown-linux-gnu", ".zip">>

\* Other files a cache directory may hold: an archive named like a binary,
\* and the file unzip extracts before it is renamed.
StrayZip == <<"convex-local-backend-", "precompiled-", "1", ".zip">>
Extracted(windows) == <<"convex-local-backend", IF windows THEN ".exe" ELSE "">>

FileNames ==
    {BinaryName(v, w) : v \in Tags, w \in BOOLEAN}
    \cup {ZipName, StrayZip} \cup {Extracted(w) : w \in BOOLEAN}

NoPath == <<>>
EmptyDir == [f \in FileNames |-> -1]
NoDownload == [made |-> FALSE, cacheTtlMs |-> 0, now |-> 0,
               cacheBefore |-> EmptyDir, cacheAfter |-> EmptyDir,
               outcome |-> "none",
               path |-> NoPath, indexQueries |-> 0, downloads |-> 0,
               extractions |-> 0, resolved |-> <<>>, touchedAt |-> 0]

\* Before the first downloadConvexBinary call.
InitBinary ==
    /\ bcNow = 1
    /\ bcLast = NoDownload

\* The fields of a ConvexBackend after its constructor: port and
\* siteProxyPort undefined (0), no process.
NewBackend == [port |-> 0, siteProxyPort |-> 0, spawned |-> FALSE, pid |-> 0]

NoMethod == [made |-> FALSE, op |-> "none", before |-> NewBackend,
             after |-> NewBackend, outcome |-> "none", fetches |-> 0,
             subprocesses |-> 0, signals |-> 0, removals |-> 0,
             warned |-> FALSE, cleanup |-> FALSE, killed |-> FALSE,
             removed |-> FALSE, stopped |-> FALSE, childBefore |-> FALSE,
             dirBefore |-> FALSE, started |-> "none", childAfter |-> FALSE,
             healthOk |-> FALSE]

\* new ConvexBackend(options)
InitBackend ==
    /\ beObj = NewBackend
    /\ beChildAlive = FALSE
    /\ beDirExists = FALSE
    /\ beLast = NoMethod

NoAdminKey == [made |-> FALSE, instanceSecret |-> <<>>, instanceName |-> <<>>,
               memberId |-> 0, isReadOnly |-> FALSE, now |-> 0, nonce |-> <<>>,
               threw |-> FALSE, secretLength |-> 0, adminKey |-> <<>>]

\* generateAdminKey not called yet.
InitAdminKey == akLast = NoAdminKey

MaxInstances == 2
MaxHosts == 2

NoBackend == [set |-> FALSE, pid |-> 0]

\* A host process that has loaded no vite.config yet, in a project without
\* a state directory.
InitLifecycle ==
    /\ lcHost = "running"
    /\ lcHosts = 1
    /\ lcInstances = 0
    /\ lcReset = FALSE
    /\ lcHook = "none"
    /\ lcBackends = [i \in 1..MaxInstances |-> NoBackend]
    /\ lcRunning = 0
    /\ lcExitRegistered = FALSE
    /\ lcSigint = <<>>
    /\ lcSigterm = <<>>
    /\ lcServers = {}
    /\ lcAlive = {}
    /\ lcKillQueue = {}
    /\ lcDirExists = FALSE
    /\ lcRemovals = {}
    /\ lcSeen = {}
    /\ lcPort = 0
    /\ lcSiteProxyPort = 0
    /\ lcLate = {}

NoIgnoreCall == [made |-> FALSE, module |-> <<>>, function |-> <<>>,
                 patterns |-> {}, result |-> FALSE]

\* isIgnored not called yet.
InitIgnore == igLast = NoIgnoreCall

NoAssetCall == [made |-> FALSE, releases |-> <<>>, found |-> FALSE,
                asset |-> <<>>, version |-> <<>>]

\* findAsset not called yet.
InitAsset == faLast = NoAssetCall

NoVarintCall == [made |-> FALSE, value |-> 0, bytes |-> <<>>]

\* encodeVarint not called yet.
InitVarint == viLast = NoVarintCall

NoWatchCall == [made |-> FALSE, filePath |-> <<>>, relativePath |-> <<>>,
                result |-> FALSE]

\* shouldWatch not called yet.
InitWatch == swLast = NoWatchCall

\* The project before any start: no keys.json.
InitKeys ==
    /\ ksFile = NoFile
    /\ ksFresh = 0
    /\ ksKeys = NoKeys
    /\ ksStarts = 0
    /\ ksLast = NoStart
    /\ ksRun = <<>>
    /\ ksRunNoReset = <<>>

Init ==
    /\ nEnv \in 0..MaxEnv
    /\ envIsFn \in BOOLEAN
    /\ nFn \in 0..MaxFns
    /\ deployBlocks \in {SyncDeploy, SuspendingDeploy}
    /\ InitPlugin
    /\ dbDelay = 0
    /\ InitDebounce
    /\ hcTimeout = 0
    /\ hcHasPid = TRUE
    /\ InitHealth
    /\ ksDir = FALSE
    /\ InitKeys
    /\ InitStateId
    /\ bcWindows = FALSE
    /\ bcCache = EmptyDir
    /\ InitBinary
    /\ InitBackend
    /\ InitAdminKey
    /\ lcPlugin = "backend.ts"
    /\ InitLifecycle
    /\ InitIgnore
    /\ InitAsset
    /\ InitVarint
    /\ InitWatch

\* The BACKEND_INIT_DELAY_MS timer fires: startBackendInit runs to its first
\* await, backend.spawn(backendDir).
StartBackendInit ==
    /\ pc = "waiting"
    /\ ~Blocked
    /\ SetPlugin(Log([Cur EXCEPT !.pc = "spawn"], <<"spawn", 0>>))
    /\ UNCHANGED <<optVars, timeoutId, lastReturn, notPlugin>>

\* backend.spawn resolves (ports chosen, child spawned) or rejects.
SpawnDone(ok) ==
    /\ pc = "spawn"
    /\ ~Blocked
    /\ IF ok
       THEN SetPlugin(Log(Log([Cur EXCEPT !.backendPort = TRUE,
                                          !.processAlive = TRUE,
                                          !.pc = "health"],
                              <<"spawnOk", 0>>), <<"health", 0>>))
       ELSE SetPlugin(initFailed(Cur))
    /\ UNCHANGED <<optVars, timeoutId, lastReturn, notPlugin>>

\* backend.waitForReady resolves or rejects.
HealthDone(ok) ==
    /\ pc = "health"
    /\ ~Blocked
    /\ IF ok
       THEN LET s1 == Log(Cur, <<"healthOk", 0>>)
            IN  IF envIsFn
                THEN SetPlugin([s1 EXCEPT !.pc = "envfn"])
                ELSE SetPlugin(setEnvLoop(s1, 1))
       ELSE SetPlugin(initFailed(Cur))
    /\ UNCHANGED <<optVars, timeoutId, lastReturn, notPlugin>>

\* await options.envVars(vitePort) resolves or rejects.
EnvFnDone(ok) ==
    /\ pc = "envfn"
    /\ ~Blocked
    /\ IF ok THEN SetPlugin(setEnvLoop(Cur, 1)) ELSE SetPlugin(initFailed(Cur))
    /\ UNCHANGED <<optVars, timeoutId, lastReturn, notPlugin>>

\* The envVars loop with a try/catch around each setEnv.
SetEnvDoneLenient(ok) ==
    /\ pc = "env"
    /\ ~Blocked
    /\ SetPlugin(setEnvLoop(Log(Cur, <<IF ok THEN "setEnvOk" ELSE "failed", envIdx>>),
                            envIdx + 1))
    /\ UNCHANGED <<optVars, timeoutId, lastReturn, notPlugin>>

\* await backend.setEnv(name, value) resolves or rejects.
SetEnvDone(ok) ==
    /\ pc = "env"
    /\ ~Blocked
    /\ IF ok
       THEN SetPlugin(setEnvLoop(Log(Cur, <<"setEnvOk", envIdx>>), envIdx + 1))
       ELSE SetPlugin(initFailed(Cur))
    /\ UNCHANGED <<optVars, timeoutId, lastReturn, notPlugin>>

\* The onReady loop without its try/catch.
RunFunctionDoneAborts(ok) ==
    /\ pc = "fn"
    /\ ~Blocked
    /\ IF ok
       THEN SetPlugin(runOnReady(Log(Cur, <<"fnOk", fnIdx>>), fnIdx + 1))
       ELSE SetPlugin(initFailed(Log(Cur, <<"fnFailed", fnIdx>>)))
    /\ UNCHANGED <<optVars, timeoutId, lastReturn, notPlugin>>

\* await backend.runFunction(fn.name, fn.args) resolves or rejects; a
\* rejection is caught inside the loop.
RunFunctionDone(ok) ==
    /\ pc = "fn"
    /\ ~Blocked
    /\ SetPlugin(runOnReady(Log(Cur, <<IF ok THEN "fnOk" ELSE "fnFailed", fnIdx>>),
                            fnIdx + 1))
    /\ UNCHANGED <<optVars, timeoutId, lastReturn, notPlugin>>

\* handleFileChange over a debounce that arms its timer on the first call
\* only.
FileChangeArmsOnce(watched) ==
    /\ ~Blocked
    /\ timeoutId' = IF watched /\ timeoutId = "null" THEN "pending" ELSE timeoutId
    /\ unserved' = (unserved \/ (watched /\ backendPort))
    /\ UNCHANGED <<optVars, pc, envIdx, fnIdx, backendPort, processAlive,
                   isDeploying, pendingDeploy, inProgress, executor, steps,
                   reqInFlight, lastReq, lastReturn, notPlugin>>

\* A watcher event (change, add, unlink): handleFileChange; watched is
\* shouldWatch(filePath).
FileChange(watched) ==
    /\ ~Blocked
    /\ timeoutId' = IF watched THEN "pending" ELSE timeoutId
    /\ unserved' = (unserved \/ (watched /\ backendPort))
    /\ UNCHANGED <<optVars, pc, envIdx, fnIdx, backendPort, processAlive,
                   isDeploying, pendingDeploy, inProgress, executor, steps,
                   reqInFlight, lastReq, lastReturn, notPlugin>>

\* The debounce timer expires: () => fn(...args), that is deploy().
TimerFire ==
    /\ timeoutId = "pending"
    /\ ~Blocked
    /\ timeoutId' = "fired"
    /\ SetPlugin(request(Cur, "timer"))
    /\ UNCHANGED <<optVars, lastReturn, notPlugin>>

\* backend.deploy() returns or throws.
DeployReturn(ok) ==
    /\ inProgress > 0
    /\ LET r == deployReturn(Cur, ok)
       IN  /\ SetPlugin([r EXCEPT !.reqInFlight = 0])
           /\ lastReturn' = [made |-> TRUE, ok |-> ok, n |-> reqInFlight,
                             started |-> r.inProgress,
                             pendingAfter |-> r.pendingDeploy,
                             isDeployingAfter |-> r.isDeploying,
                             aliveBefore |-> processAlive,
                             aliveAfter |-> r.processAlive,
                             by |-> executor,
                             pcBefore |-> pc, pcAfter |-> r.pc]
    /\ UNCHANGED <<optVars, timeoutId, notPlugin>>

Next ==
    \/ StartBackendInit
    \/ \E ok \in BOOLEAN : SpawnDone(ok)
    \/ \E ok \in BOOLEAN : HealthDone(ok)
    \/ \E ok \in BOOLEAN : EnvFnDone(ok)
    \/ \E ok \in BOOLEAN : SetEnvDone(ok)
    \/ \E ok \in BOOLEAN : RunFunctionDone(ok)
    \/ \E watched \in BOOLEAN : FileChange(watched)
    \/ TimerFire
    \/ \E ok \in BOOLEAN : DeployReturn(ok)

Spec == Init /\ [][Next]_vars

\* The plugin with the deploy primitive of src: spawnSync blocks the event loop.
InitSync == Init /\ deployBlocks = SyncDeploy
SpecSync == InitSync /\ [][Next]_vars

\* The plugin with the scheduling of Node: a debounce timer that is set and
\* not cleared expires and its callback runs once the event loop is free, and
\* backend.deploy() returns (the deploy subprocess runs under deployTimeout).
\* A change that re-arms the timer leaves TimerFire enabled, so the fairness
\* on it speaks for the timer set by the last change of a burst.
Fairness ==
    /\ WF_vars(TimerFire)
    /\ WF_vars(\E ok \in BOOLEAN : DeployReturn(ok))
\* Liveness is checked on plugins with at most one environment variable and
\* at most one onReady function.
InitLive == Init /\ nEnv <= 1 /\ nFn <= 1
SpecLive == InitLive /\ [][Next]_vars /\ Fairness

\* ------------------------------------------------ debounce against a clock
\* What the debounce machine leaves alone.
notDebounce == <<optVars, pluginVars, histVars, healthVars, keysVars, stateIdVars,
    binaryVars, backendVars, adminKeyVars, lifeVars, ignoreVars,
    assetVars, varintVars, watchVars>>

\* The debounced function that sets its timer only when none was set before
\* (a leading timer that later calls do not restart).
DebouncedCallNoRestart ==
    /\ dbCalls < MaxCalls
    /\ IF dbTimeoutId \in dbTimers
       THEN UNCHANGED <<dbTimers, dbTimeoutId>>
       ELSE /\ dbTimers' = dbTimers \cup {dbNow + dbDelay}
            /\ dbTimeoutId' = dbNow + dbDelay
    /\ dbCalls' = dbCalls + 1
    /\ dbLastCall' = dbNow
    /\ LET newBurst == dbLastCall < 0 \/ dbNow - dbLastCall >= dbDelay
       IN  /\ dbBursts' = IF newBurst THEN dbBursts + 1 ELSE dbBursts
           /\ dbBurstCalls' = IF newBurst THEN 1 ELSE dbBurstCalls + 1
    /\ dbRunsSinceCall' = 0
    /\ UNCHANGED <<dbDelay, dbNow, dbRuns, dbLastRun, notDebounce>>

\* A call of the debounced function: clearTimeout(timeoutId) when it is set
\* (a no-op for a timer that has fired), then timeoutId = setTimeout(.., delay).
DebouncedCall ==
    /\ dbCalls < MaxCalls
    /\ dbTimers' = (IF dbTimeoutId # -1 THEN dbTimers \ {dbTimeoutId} ELSE dbTimers)
                   \cup {dbNow + dbDelay}
    /\ dbTimeoutId' = dbNow + dbDelay
    /\ dbCalls' = dbCalls + 1
    /\ dbLastCall' = dbNow
    /\ LET newBurst == dbLastCall < 0 \/ dbNow - dbLastCall >= dbDelay
       IN  /\ dbBursts' = IF newBurst THEN dbBursts + 1 ELSE dbBursts
           /\ dbBurstCalls' = IF newBurst THEN 1 ELSE dbBurstCalls + 1
    /\ dbRunsSinceCall' = 0
    /\ UNCHANGED <<dbDelay, dbNow, dbRuns, dbLastRun, notDebounce>>

\* A timer set by setTimeout expires and its callback runs fn; the event loop
\* dispatches it at its expiry time or later, never earlier.
DebounceTimerFire(timer) ==
    /\ timer \in dbTimers
    /\ dbNow >= timer
    /\ dbTimers' = dbTimers \ {timer}
    /\ dbRuns' = dbRuns + 1
    /\ dbRunsSinceCall' = dbRunsSinceCall + 1
    /\ dbLastRun' = [made |-> TRUE, at |-> dbNow, lastCall |-> dbLastCall,
                     calls |-> dbBurstCalls]
    /\ UNCHANGED <<dbDelay, dbNow, dbTimeoutId, dbCalls, dbLastCall, dbBursts,
                   dbBurstCalls, notDebounce>>

\* The clock advances.
DebounceTick ==
    /\ dbNow < MaxTime
    /\ dbNow' = dbNow + 1
    /\ UNCHANGED <<dbDelay, dbTimeoutId, dbTimers, dbCalls, dbLastCall, dbBursts,
                   dbBurstCalls, dbRuns, dbRunsSinceCall, dbLastRun, notDebounce>>

InitDebounceSpec ==
    /\ nEnv = 0
    /\ envIsFn = FALSE
    /\ nFn = 0
    /\ deployBlocks = SyncDeploy
    /\ InitPlugin
    /\ dbDelay \in 0..MaxDelay
    /\ InitDebounce
    /\ hcTimeout = 0
    /\ hcHasPid = TRUE
    /\ InitHealth
    /\ ksDir = FALSE
    /\ InitKeys
    /\ InitStateId
    /\ bcWindows = FALSE
    /\ bcCache = EmptyDir
    /\ InitBinary
    /\ InitBackend
    /\ InitAdminKey
    /\ lcPlugin = "backend.ts"
    /\ InitLifecycle
    /\ InitIgnore
    /\ InitAsset
    /\ InitVarint
    /\ InitWatch

NextDebounce ==
    \/ DebouncedCall
    \/ \E timer \in 0..(MaxTime + MaxDelay) : DebounceTimerFire(timer)
    \/ DebounceTick

SpecDebounce == InitDebounceSpec /\ [][NextDebounce]_vars

\* ------------------------------------------- waitForHttpOk in milliseconds
\* What the health-check machine leaves alone.
notHealth == <<optVars, pluginVars, histVars, debounceVars, keysVars, stateIdVars,
    binaryVars, backendVars, adminKeyVars, lifeVars, ignoreVars,
    assetVars, varintVars, watchVars>>

RECURSIVE Pow(_, _)
Pow(b, n) == IF n = 0 THEN 1 ELSE b * Pow(b, n - 1)

Min(a, b) == IF a <= b THEN a ELSE b

\* 200 * Math.pow(1.5, attempts), to the millisecond.
Backoff(attempts) == (BackoffBase * Pow(3, attempts)) \div Pow(2, attempts)

\* res.ok alone.
StatusOkOnly2xx(status) == status >= 200 /\ status < 300

\* res.ok || (res.status >= 300 && res.status < 400); status 0 stands for a
\* fetch that rejected (caught, no-op).
StatusOk(status) == (status >= 200 /\ status < 300) \/ (status >= 300 /\ status < 400)

Statuses == {0, 101, 199, 200, 299, 302, 399, 400, 404, 500}
ProbeTimes == {0, MaxProbe}
Lateness == {0, MaxLate}
Timeouts == {0, ShortTimeout, HealthCheckTimeout}

\* The loop body after the probe without "if (remaining <= 0) throw".
afterProbeNoDeadline(now, deadline, attempts, status) ==
    IF StatusOk(status) THEN [pc |-> "returned", wake |-> now]
    ELSE LET remaining == deadline - now
             delay == Min(Backoff(attempts), remaining)
         IN  [pc |-> "sleep", wake |-> now + (IF delay > 0 THEN delay ELSE 0)]

\* The loop body of waitForHttpOk from the settled fetch to the next await,
\* return or throw.
afterProbe(now, deadline, attempts, status) ==
    IF StatusOk(status) THEN [pc |-> "returned", wake |-> now]
    ELSE LET remaining == deadline - now
         IN  IF remaining <= 0 THEN [pc |-> "timedOut", wake |-> now]
             ELSE [pc |-> "sleep",
                   wake |-> now + Min(Backoff(attempts), remaining)]

\* startBackend awaits healthCheck(): waitForHttpOk(url, timeoutMs) takes its
\* deadline and issues the first fetch.
WaitForHttpOk ==
    /\ hcPc = "idle"
    /\ hcDeadline' = hcNow + hcTimeout
    /\ hcAttempts' = 0
    /\ hcPc' = "probe"
    /\ UNCHANGED <<hcTimeout, hcHasPid, hcNow, hcWake, hcCaller, hcStatus,
                   hcLastProbe, hcLastLate, notHealth>>

\* The fetch settles after took ms with status (0: rejected); the loop body
\* runs on, and a return or throw reaches healthCheck and startBackend.
ProbeDone(took, status) ==
    /\ hcPc = "probe"
    /\ LET now == hcNow + took
           r == afterProbe(now, hcDeadline, hcAttempts, status)
       IN  /\ hcNow' = now
           /\ hcPc' = r.pc
           /\ hcWake' = r.wake
           /\ hcCaller' = IF r.pc = "timedOut" THEN "timeout"
                          ELSE IF r.pc = "returned"
                               THEN (IF hcHasPid THEN "resolved" ELSE "nopid")
                               ELSE hcCaller
    /\ hcStatus' = status
    /\ hcLastProbe' = took
    /\ UNCHANGED <<hcTimeout, hcHasPid, hcDeadline, hcAttempts, hcLastLate,
                   notHealth>>

\* The setTimeout of the loop fires, late ms after its expiry: attempts++ and
\* the next fetch.
SleepDone(late) ==
    /\ hcPc = "sleep"
    /\ hcNow' = hcWake + late
    /\ hcAttempts' = hcAttempts + 1
    /\ hcPc' = "probe"
    /\ hcLastLate' = late
    /\ UNCHANGED <<hcTimeout, hcHasPid, hcDeadline, hcWake, hcCaller, hcStatus,
                   hcLastProbe, notHealth>>

InitHealthSpec ==
    /\ nEnv = 0
    /\ envIsFn = FALSE
    /\ nFn = 0
    /\ deployBlocks = SyncDeploy
    /\ InitPlugin
    /\ dbDelay = 0
    /\ InitDebounce
    /\ hcTimeout \in Timeouts
    /\ hcHasPid \in BOOLEAN
    /\ InitHealth
    /\ ksDir = FALSE
    /\ InitKeys
    /\ InitStateId
    /\ bcWindows = FALSE
    /\ bcCache = EmptyDir
    /\ InitBinary
    /\ InitBackend
    /\ InitAdminKey
    /\ lcPlugin = "backend.ts"
    /\ InitLifecycle
    /\ InitIgnore
    /\ InitAsset
    /\ InitVarint
    /\ InitWatch

NextHealth ==
    \/ WaitForHttpOk
    \/ \E took \in ProbeTimes, status \in Statuses : ProbeDone(took, status)
    \/ \E late \in Lateness : SleepDone(late)

SpecHealth == InitHealthSpec /\ [][NextHealth]_vars

\* ----------------------------------------------- key resolution at startup
\* What the key machine leaves alone.
notKeys == <<optVars, pluginVars, histVars, debounceVars, healthVars, stateIdVars,
    binaryVars, backendVars, adminKeyVars, lifeVars, ignoreVars,
    assetVars, varintVars, watchVars>>

\* Option values a caller may pass: instanceName, instanceSecret, adminKey,
\* each possibly left undefined.
OptNames == {"undefined", "custom"}
OptSecrets == {Undefined, <<"caller", 1>>}
OptAdminKeys == {Undefined, <<"caller", 1>>}

\* loadPersistedKeys: the parsed contents, or null (here NoKeys with found
\* FALSE) when the file is absent or reading/parsing it throws.
loadPersistedKeys(file) ==
    IF file.kind = "keys" THEN [found |-> TRUE, keys |-> file.keys]
    ELSE [found |-> FALSE, keys |-> NoKeys]

\* savePersistedKeys: mkdirSync(dir, recursive) and writeFileSync.
savePersistedKeys(keys) == [dir |-> TRUE, file |-> [kind |-> "keys", keys |-> keys]]

\* generateKeyPair(instanceName) with the n-th fresh random secret.
generateKeyPair(instanceName, n) ==
    [instanceSecret |-> <<"generated", n>>, adminKey |-> <<"generated", n>>]

\* options.instanceName ?? "convex-local"
NameOrDefault(name) == IF name = "undefined" THEN "convex-local" ELSE name

\* Key resolution that prefers the caller's secret and admin key to the
\* persisted ones.
resolveKeysCallerFirst(dir, file, fresh, reset, optName, optSecret, optAdminKey) ==
    LET removed == reset /\ dir
        dir1 == IF removed THEN FALSE ELSE dir
        file1 == IF removed THEN NoFile ELSE file
        existing == loadPersistedKeys(file1)
    IN  IF optSecret # Undefined /\ optAdminKey # Undefined
        THEN LET keys == [instanceName |-> NameOrDefault(optName),
                          instanceSecret |-> optSecret, adminKey |-> optAdminKey]
                 w == savePersistedKeys(keys)
             IN  [keys |-> keys, dir |-> w.dir, file |-> w.file, fresh |-> fresh,
                  wrote |-> TRUE, generated |-> FALSE, removed |-> removed]
        ELSE IF existing.found /\ ~reset
        THEN [keys |-> existing.keys, dir |-> dir1, file |-> file1, fresh |-> fresh,
              wrote |-> FALSE, generated |-> FALSE, removed |-> removed]
        ELSE LET g == generateKeyPair(NameOrDefault(optName), fresh + 1)
                 keys == [instanceName |-> NameOrDefault(optName),
                          instanceSecret |-> g.instanceSecret,
                          adminKey |-> g.adminKey]
                 w == savePersistedKeys(keys)
             IN  [keys |-> keys, dir |-> w.dir, file |-> w.file,
                  fresh |-> fresh + 1, wrote |-> TRUE, generated |-> TRUE,
                  removed |-> removed]

\* Key resolution that keeps a secret or an admin key given alone and
\* generates only the other one.
resolveKeysKeepsSupplied(dir, file, fresh, reset, optName, optSecret, optAdminKey) ==
    LET removed == reset /\ dir
        dir1 == IF removed THEN FALSE ELSE dir
        file1 == IF removed THEN NoFile ELSE file
        existing == loadPersistedKeys(file1)
    IN  IF existing.found /\ ~reset
        THEN [keys |-> existing.keys, dir |-> dir1, file |-> file1, fresh |-> fresh,
              wrote |-> FALSE, generated |-> FALSE, removed |-> removed]
        ELSE IF optSecret # Undefined /\ optAdminKey # Undefined
        THEN LET keys == [instanceName |-> NameOrDefault(optName),
                          instanceSecret |-> optSecret, adminKey |-> optAdminKey]
                 w == savePersistedKeys(keys)
             IN  [keys |-> keys, dir |-> w.dir, file |-> w.file, fresh |-> fresh,
                  wrote |-> TRUE, generated |-> FALSE, removed |-> removed]
        ELSE LET g == generateKeyPair(NameOrDefault(optName), fresh + 1)
                 keys == [instanceName |-> NameOrDefault(optName),
                          instanceSecret |-> IF optSecret # Undefined THEN optSecret
                                             ELSE g.instanceSecret,
                          adminKey |-> IF optAdminKey # Undefined THEN optAdminKey
                                       ELSE g.adminKey]
                 w == savePersistedKeys(keys)
             IN  [keys |-> keys, dir |-> w.dir, file |-> w.file,
                  fresh |-> fresh + 1, wrote |-> TRUE, generated |-> TRUE,
                  removed |-> removed]

\* Key resolution that does not look at options.reset.
resolveKeysIgnoreReset(dir, file, fresh, reset, optName, optSecret, optAdminKey) ==
    LET existing == loadPersistedKeys(file)
    IN  IF existing.found
        THEN [keys |-> existing.keys, dir |-> dir, file |-> file, fresh |-> fresh,
              wrote |-> FALSE, generated |-> FALSE, removed |-> FALSE]
        ELSE IF optSecret # Undefined /\ optAdminKey # Undefined
        THEN LET keys == [instanceName |-> NameOrDefault(optName),
                          instanceSecret |-> optSecret, adminKey |-> optAdminKey]
                 w == savePersistedKeys(keys)
             IN  [keys |-> keys, dir |-> w.dir, file |-> w.file, fresh |-> fresh,
                  wrote |-> TRUE, generated |-> FALSE, removed |-> FALSE]
        ELSE LET g == generateKeyPair(NameOrDefault(optName), fresh + 1)
                 keys == [instanceName |-> NameOrDefault(optName),
                          instanceSecret |-> g.instanceSecret,
                          adminKey |-> g.adminKey]
                 w == savePersistedKeys(keys)
             IN  [keys |-> keys, dir |-> w.dir, file |-> w.file,
                  fresh |-> fresh + 1, wrote |-> TRUE, generated |-> TRUE,
                  removed |-> FALSE]

\* startBackendInit from its entry to "new ConvexBackend": the reset, then
\* the keys loaded, taken from the caller or generated.
resolveKeys(dir, file, fresh, reset, optName, optSecret, optAdminKey) ==
    LET removed == reset /\ dir
        dir1 == IF removed THEN FALSE ELSE dir
        file1 == IF removed THEN NoFile ELSE file
        existing == loadPersistedKeys(file1)
    IN  IF existing.found /\ ~reset
        THEN [keys |-> existing.keys, dir |-> dir1, file |-> file1, fresh |-> fresh,
              wrote |-> FALSE, generated |-> FALSE, removed |-> removed]
        ELSE IF optSecret # Undefined /\ optAdminKey # Undefined
        THEN LET keys == [instanceName |-> NameOrDefault(optName),
                          instanceSecret |-> optSecret, adminKey |-> optAdminKey]
                 w == savePersistedKeys(keys)
             IN  [keys |-> keys, dir |-> w.dir, file |-> w.file, fresh |-> fresh,
                  wrote |-> TRUE, generated |-> FALSE, removed |-> removed]
        ELSE LET g == generateKeyPair(NameOrDefault(optName), fresh + 1)
                 keys == [instanceName |-> NameOrDefault(optName),
                          instanceSecret |-> g.instanceSecret,
                          adminKey |-> g.adminKey]
                 w == savePersistedKeys(keys)
             IN  [keys |-> keys, dir |-> w.dir, file |-> w.file,
                  fresh |-> fresh + 1, wrote |-> TRUE, generated |-> TRUE,
                  removed |-> removed]

\* writeFileSync of savePersistedKeys throws: keys.json is there, cannot be
\* opened for reading (no permission, a directory) and cannot be opened for
\* writing either.
writeThrows(file, writable) == file.kind = "unreadable" /\ ~writable

\* A dev-server start with the given options reaches startBackendInit and
\* resolves its keys (synchronous file calls, no await between them). When
\* savePersistedKeys throws, the catch of startBackendInit logs "Backend
\* initialization failed" and no backend is made.
ResolveKeys(reset, optName, optSecret, optAdminKey, writable) ==
    /\ ksStarts < MaxStarts
    /\ writable \/ ksFile.kind = "unreadable"
    /\ LET r == resolveKeys(ksDir, ksFile, ksFresh, reset, optName, optSecret,
                            optAdminKey)
           threw == r.wrote /\ ~r.removed /\ writeThrows(ksFile, writable)
       IN  /\ ksDir' = r.dir
           /\ ksFile' = IF threw THEN ksFile ELSE r.file
           /\ ksFresh' = r.fresh
           /\ ksKeys' = IF threw THEN NoKeys ELSE r.keys
           /\ ksLast' = [made |-> TRUE, reset |-> reset, instanceName |-> optName,
                         instanceSecret |-> optSecret, adminKey |-> optAdminKey,
                         dirBefore |-> ksDir, fileBefore |-> ksFile,
                         fileAfter |-> IF threw THEN ksFile ELSE r.file,
                         wrote |-> r.wrote /\ ~threw,
                         generated |-> r.generated, removed |-> r.removed,
                         threw |-> threw]
           /\ ksRun' = IF threw THEN ksRun
                       ELSE IF reset THEN <<r.keys>> ELSE Append(ksRun, r.keys)
           /\ ksRunNoReset' = IF threw THEN ksRunNoReset
                              ELSE IF reset THEN <<r.keys>>
                              ELSE Append(ksRunNoReset, r.keys)
    /\ ksStarts' = ksStarts + 1
    /\ UNCHANGED notKeys

\* Between starts keys.json is left unparseable (a write cut short, an
\* edit: JSON.parse throws) or unreadable (its permissions changed, a
\* directory in its place: readFileSync throws): a file loadPersistedKeys
\* answers with null for.
DamageKeysFile(kind) ==
    /\ ksFile.kind = "keys"
    /\ ksStarts < MaxStarts
    /\ ksFile' = [kind |-> kind, keys |-> NoKeys]
    /\ ksRun' = <<>>
    /\ UNCHANGED <<ksDir, ksFresh, ksKeys, ksStarts, ksLast, ksRunNoReset, notKeys>>

InitKeysSpec ==
    /\ nEnv = 0
    /\ envIsFn = FALSE
    /\ nFn = 0
    /\ deployBlocks = SyncDeploy
    /\ InitPlugin
    /\ dbDelay = 0
    /\ InitDebounce
    /\ hcTimeout = 0
    /\ hcHasPid = TRUE
    /\ InitHealth
    /\ ksDir \in BOOLEAN
    /\ InitKeys
    /\ InitStateId
    /\ bcWindows = FALSE
    /\ bcCache = EmptyDir
    /\ InitBinary
    /\ InitBackend
    /\ InitAdminKey
    /\ lcPlugin = "backend.ts"
    /\ InitLifecycle
    /\ InitIgnore
    /\ InitAsset
    /\ InitVarint
    /\ InitWatch

NextKeys ==
    \/ \E reset \in BOOLEAN, optName \in OptNames, optSecret \in OptSecrets,
          optAdminKey \in OptAdminKeys, writable \in BOOLEAN :
            ResolveKeys(reset, optName, optSecret, optAdminKey, writable)
    \/ \E kind \in {"unparseable", "unreadable"} : DamageKeysFile(kind)

SpecKeys == InitKeysSpec /\ [][NextKeys]_vars

\* ------------------------------------------------------- computeStateId
\* What the state-identity machine leaves alone.
notStateId == <<optVars, pluginVars, histVars, debounceVars, healthVars, keysVars,
               binaryVars, backendVars, adminKeyVars, lifeVars, ignoreVars,
    assetVars, varintVars, watchVars>>

Lower == {"a", "b", "c", "d", "e", "f", "g", "h", "i", "j", "k", "l", "m",
          "n", "o", "p", "q", "r", "s", "t", "u", "v", "w", "x", "y", "z"}
Upper == {"A", "B", "C", "D", "E", "F", "G", "H", "I", "J", "K", "L", "M",
          "N", "O", "P", "Q", "R", "S", "T", "U", "V", "W", "X", "Y", "Z"}
Digits == {"0", "1", "2", "3", "4", "5", "6", "7", "8", "9"}

\* The characters the regular expression [^a-zA-Z0-9-] leaves alone.
Kept == Lower \cup Upper \cup Digits \cup {"-"}

Whitespace == {" ", "\n", "\t"}

\* String.prototype.trim
RECURSIVE TrimStart(_)
TrimStart(s) ==
    IF s # <<>> /\ Head(s) \in Whitespace THEN TrimStart(Tail(s)) ELSE s

RECURSIVE TrimEnd(_)
TrimEnd(s) ==
    IF s # <<>> /\ s[Len(s)] \in Whitespace
    THEN TrimEnd(SubSeq(s, 1, Len(s) - 1)) ELSE s

Trim(s) == TrimEnd(TrimStart(s))

\* s.replace(/[^a-zA-Z0-9-]/g, "-")
Sanitize(s) == [i \in 1..Len(s) |-> IF s[i] \in Kept THEN s[i] ELSE "-"]

HexDigits == <<"0", "1", "2", "3", "4", "5", "6", "7", "8", "9",
               "a", "b", "c", "d", "e", "f">>

\* The characters of the modelled inputs, in the order of their codes.
Alphabet == <<"a", "Z", "7", "-", "/", ":", "_", "u", "n", "k", "o", "w",
              "f", "x">>

CharCode(c) == CHOOSE i \in 1..Len(Alphabet) : Alphabet[i] = c

\* crypto.createHash("sha256").update(input).digest("hex"): 64 lowercase hex
\* digits. SHA-256 is stood for by a digest that is collision-free on the
\* modelled inputs within its first 16 digits: one digit per character of the
\* input, then an "f", then zeros.
Sha256Hex(input) ==
    [i \in 1..64 |->
        IF i <= Len(input) THEN HexDigits[CharCode(input[i])]
        ELSE IF i = Len(input) + 1 THEN "f" ELSE "0"]

\* gitBranch without the test of the exit status: whatever git printed is
\* taken for the branch.
gitBranchAnyOutput(git) ==
    IF git.stdout # <<>> THEN Trim(git.stdout)
    ELSE <<"u", "n", "k", "n", "o", "w", "n">>

\* The git branch computeStateId works with: the trimmed output of
\* git rev-parse --abbrev-ref HEAD, or "unknown".
gitBranch(git) ==
    IF git.status = 0 /\ git.stdout # <<>> THEN Trim(git.stdout)
    ELSE <<"u", "n", "k", "n", "o", "w", "n">>

\* suffix ? .. : ..  (undefined and "" are both falsy)
Truthy(suffix) == suffix.defined /\ suffix.value # <<>>

\* const input
digestInput(branch, projectDir, suffix) ==
    IF Truthy(suffix)
    THEN branch \o <<":">> \o projectDir \o <<":">> \o suffix.value
    ELSE branch \o <<":">> \o projectDir

\* computeStateId with the number of the call mixed into the digest input.
computeStateIdSalted(git, projectDir, suffix) ==
    LET branch == gitBranch(git)
        input == digestInput(branch, projectDir, suffix)
                 \o <<IF sidCalls = 0 THEN "a" ELSE "Z">>
        hash == SubSeq(Sha256Hex(input), 1, 16)
        sanitizedSuffix == IF Truthy(suffix)
                           THEN <<"-">> \o Sanitize(suffix.value) ELSE <<>>
    IN  Sanitize(branch) \o sanitizedSuffix \o <<"-">> \o hash

\* computeStateId that leaves the suffix out of the digest input.
computeStateIdSuffixUnhashed(git, projectDir, suffix) ==
    LET branch == gitBranch(git)
        input == branch \o <<":">> \o projectDir
        hash == SubSeq(Sha256Hex(input), 1, 16)
        sanitizedSuffix == IF Truthy(suffix)
                           THEN <<"-">> \o Sanitize(suffix.value) ELSE <<>>
    IN  Sanitize(branch) \o sanitizedSuffix \o <<"-">> \o hash

\* computeStateId that sanitizes the branch but not the suffix.
computeStateIdRawSuffix(git, projectDir, suffix) ==
    LET branch == gitBranch(git)
        input == digestInput(branch, projectDir, suffix)
        hash == SubSeq(Sha256Hex(input), 1, 16)
        sanitizedSuffix == IF Truthy(suffix)
                           THEN <<"-">> \o suffix.value ELSE <<>>
    IN  Sanitize(branch) \o sanitizedSuffix \o <<"-">> \o hash

\* computeStateId(projectDir, suffix), git being the result of its spawnSync.
computeStateId(git, projectDir, suffix) ==
    LET branch == gitBranch(git)
        input == digestInput(branch, projectDir, suffix)
        hash == SubSeq(Sha256Hex(input), 1, 16)
        sanitizedSuffix == IF Truthy(suffix)
                           THEN <<"-">> \o Sanitize(suffix.value) ELSE <<>>
    IN  Sanitize(branch) \o sanitizedSuffix \o <<"-">> \o hash

\* Results of the git subprocess. On success: status 0, a branch name and a
\* newline. The results that leave the branch unread: status 128 and no
\* output outside a repository; no status and no output when the git binary
\* is missing or spawnSync throws (status -1 stands for the null status, the
\* empty sequence for the null output); a non-zero status with output; and
\* status 0 with no output at all.
Branches == {<<"a">>, <<"f", "/", "x">>, <<"f", "_", "x">>, <<"a", ":", "Z">>,
             <<"u", "n", "k", "n", "o", "w", "n">>}
GitFailures ==
    {[status |-> 128, stdout |-> <<>>], [status |-> -1, stdout |-> <<>>],
     [status |-> 1, stdout |-> <<"a", "\n">>], [status |-> 0, stdout |-> <<>>]}
GitResults ==
    {[status |-> 0, stdout |-> b \o <<"\n">>] : b \in Branches}
    \cup GitFailures

ProjectDirs == {<<"/", "a">>, <<"Z", ":", "/", "a">>}

Suffixes ==
    {[defined |-> FALSE, value |-> <<>>]}
    \cup {[defined |-> TRUE, value |-> v] :
            v \in {<<>>, <<"a">>, <<"7", "/">>, <<"7", ":">>, <<"7", "-">>}}

\* A call of computeStateId(projectDir, suffix) in a directory where git
\* answers with the given result.
ComputeStateId(git, projectDir, suffix) ==
    /\ sidCalls < MaxComputes
    /\ sidCalls' = sidCalls + 1
    /\ sidPrev' = sidLast
    /\ sidLast' = [made |-> TRUE, branch |-> gitBranch(git),
                   projectDir |-> projectDir, suffix |-> suffix,
                   input |-> digestInput(gitBranch(git), projectDir, suffix),
                   id |-> computeStateId(git, projectDir, suffix),
                   git |-> git]
    /\ UNCHANGED notStateId

NextStateId ==
    \E git \in GitResults, projectDir \in ProjectDirs, suffix \in Suffixes :
        ComputeStateId(git, projectDir, suffix)

InitStateIdSpec ==
    /\ nEnv = 0
    /\ envIsFn = FALSE
    /\ nFn = 0
    /\ deployBlocks = SyncDeploy
    /\ InitPlugin
    /\ dbDelay = 0
    /\ InitDebounce
    /\ hcTimeout = 0
    /\ hcHasPid = TRUE
    /\ InitHealth
    /\ ksDir = FALSE
    /\ InitKeys
    /\ InitStateId
    /\ bcWindows = FALSE
    /\ bcCache = EmptyDir
    /\ InitBinary
    /\ InitBackend
    /\ InitAdminKey
    /\ lcPlugin = "backend.ts"
    /\ InitLifecycle
    /\ InitIgnore
    /\ InitAsset
    /\ InitVarint
    /\ InitWatch

SpecStateId == InitStateIdSpec /\ [][NextStateId]_vars

\* ------------------------------------------------- downloadConvexBinary
\* What the binary-cache machine leaves alone.
notBinary == <<optVars, pluginVars, histVars, debounceVars, healthVars, keysVars,
              stateIdVars, backendVars, adminKeyVars, lifeVars, ignoreVars,
    assetVars, varintVars, watchVars>>

\* String tests on names held as token sequences.
StartsWith(name, prefix) ==
    Len(name) >= Len(prefix) /\ SubSeq(name, 1, Len(prefix)) = prefix

EndsWith(name, suffix) ==
    suffix = "" \/ (name # <<>> /\ name[Len(name)] = suffix)

Includes(name, part) ==
    \E i \in 1..Len(name) :
        i + Len(part) - 1 <= Len(name) /\ SubSeq(name, i, i + Len(part) - 1) = part

\* getPlatformTarget() on the modelled platform.
Target == <<"convex-local-backend-", "x86_64-unknown-linux-gnu">>

\* An asset for another platform.
OtherAsset == <<"convex-local-backend-", "aarch64-apple-darwin", ".zip">>

\* findCachedBinary: the binaries it may return. Among the files named
\* convex-local-backend-precompiled-*, not archives, it takes the newest by
\* mtime (on equal mtimes the first readdirSync lists) and answers with it
\* when its age is below cacheTtlMs, with null (here the empty set) otherwise.
findCachedBinary(cache, now, cacheTtlMs, windows) ==
    LET binaries == {f \in FileNames :
                        /\ cache[f] >= 0
                        /\ StartsWith(f, <<"convex-local-backend-", "precompiled-">>)
                        /\ EndsWith(f, IF windows THEN ".exe" ELSE "")
                        /\ ~EndsWith(f, ".zip")}
        dated == {f \in binaries : cache[f] > 0}
        newest == {f \in dated : \A g \in dated : cache[g] <= cache[f]}
    IN  IF newest = {} THEN {}
        ELSE LET newestMtime == cache[CHOOSE f \in newest : TRUE]
             IN  IF now - newestMtime < cacheTtlMs THEN newest ELSE {}

\* findAsset that walks the release index from its end.
RECURSIVE findAssetBack(_, _, _)
findAssetBack(releases, target, i) ==
    IF i < 1 THEN [found |-> FALSE, asset |-> <<>>, version |-> <<>>]
    ELSE LET assets == releases[i].assets
             hits == {k \in 1..Len(assets) : Includes(assets[k], target)}
         IN  IF hits # {}
             THEN [found |-> TRUE,
                   asset |-> assets[CHOOSE k \in hits : \A h \in hits : k <= h],
                   version |-> releases[i].tag_name]
             ELSE findAssetBack(releases, target, i - 1)

findAssetLastRelease(releases, target) ==
    findAssetBack(releases, target, Len(releases))

RECURSIVE findAssetFrom(_, _, _)
findAssetFrom(releases, target, i) ==
    IF i > Len(releases) THEN [found |-> FALSE, asset |-> <<>>, version |-> <<>>]
    ELSE LET assets == releases[i].assets
             hits == {k \in 1..Len(assets) : Includes(assets[k], target)}
         IN  IF hits # {}
             THEN [found |-> TRUE,
                   asset |-> assets[CHOOSE k \in hits : \A h \in hits : k <= h],
                   version |-> releases[i].tag_name]
             ELSE findAssetFrom(releases, target, i + 1)

\* findAsset: found FALSE stands for its "No Convex binary asset matches".
findAsset(releases, target) == findAssetFrom(releases, target, 1)

Answer(outcome, path, cache, indexQueries, downloads, extractions) ==
    [outcome |-> outcome, path |-> path, cache |-> cache,
     indexQueries |-> indexQueries, downloads |-> downloads,
     extractions |-> extractions]

\* The part of downloadConvexBinary after the cache check: the release
\* index, the asset, and the touch or the download.
fetchBinary(cache, now, windows, index, dlOk, unzipOk, archiveTime) ==
    IF ~index.ok THEN Answer("fetchFailed", NoPath, cache, 1, 0, 0)
    ELSE LET a == findAsset(index.releases, Target)
             binaryPath == BinaryName(a.version, windows)
         IN  IF ~a.found THEN Answer("assetNotFound", NoPath, cache, 1, 0, 0)
             ELSE IF cache[binaryPath] >= 0
             THEN Answer("touched", binaryPath,
                         [cache EXCEPT ![binaryPath] = now], 1, 0, 0)
             ELSE IF ~dlOk THEN Answer("downloadFailed", NoPath, cache, 1, 1, 0)
             ELSE IF ~unzipOk
             THEN Answer("extractFailed", NoPath,
                         [cache EXCEPT ![a.asset] = now], 1, 1, 1)
             ELSE Answer("downloaded", binaryPath,
                         [cache EXCEPT ![a.asset] = -1,
                                       ![Extracted(windows)] = -1,
                                       ![binaryPath] = archiveTime], 1, 1, 1)

\* downloadConvexBinary that goes to the release index without looking at
\* the cache.
downloadConvexBinaryNoCache(cache, now, cacheTtlMs, windows, cached, index, dlOk, unzipOk, archiveTime) ==
    fetchBinary(cache, now, windows, index, dlOk, unzipOk, archiveTime)

\* downloadConvexBinary that returns an existing version binary without
\* the utimesSync.
downloadConvexBinaryNoTouch(cache, now, cacheTtlMs, windows, cached, index, dlOk, unzipOk, archiveTime) ==
    IF cacheTtlMs > 0 /\ cached # NoPath
    THEN Answer("cached", cached, cache, 0, 0, 0)
    ELSE LET r == fetchBinary(cache, now, windows, index, dlOk, unzipOk, archiveTime)
         IN  IF r.outcome = "touched" THEN [r EXCEPT !.cache = cache] ELSE r

\* downloadConvexBinary; cached is what findCachedBinary answers (NoPath for
\* null), archiveTime the mtime unzip gives the extracted file.
downloadConvexBinary(cache, now, cacheTtlMs, windows, cached, index, dlOk, unzipOk, archiveTime) ==
    IF cacheTtlMs > 0 /\ cached # NoPath
    THEN Answer("cached", cached, cache, 0, 0, 0)
    ELSE fetchBinary(cache, now, windows, index, dlOk, unzipOk, archiveTime)

\* What fetchConvexReleases may answer: a failure, or a release index. The
\* archive is not extracted when its download failed, and no file gets the
\* archive's mtime when nothing is extracted.
Release(tag, assets) == [tag_name |-> tag, assets |-> assets]
Indexes ==
    LET v1 == <<"precompiled-", "1">>
        v2 == <<"precompiled-", "2">>
    IN  {[ok |-> FALSE, releases |-> <<>>]}
        \cup {[ok |-> TRUE, releases |-> rs] : rs \in {
                << Release(v1, <<OtherAsset, ZipName>>) >>,
                << Release(v2, <<ZipName>>), Release(v1, <<ZipName>>) >>,
                << Release(v2, <<OtherAsset>>), Release(v1, <<ZipName>>) >>,
                << Release(v2, <<>>), Release(v1, <<OtherAsset>>) >> }}

\* A call of downloadConvexBinary({cacheTtlMs}, logger), start to end. The
\* record of the call keeps the version findAsset resolved when the release
\* index was consulted, and the time at which the call before it touched an
\* existing binary (0 when it did not).
DownloadConvexBinary(cacheTtlMs, index, dlOk, unzipOk, archiveTime) ==
    LET hits == findCachedBinary(bcCache, bcNow, cacheTtlMs, bcWindows)
    IN  \E cached \in (IF hits = {} THEN {NoPath} ELSE hits) :
            LET r == downloadConvexBinary(bcCache, bcNow, cacheTtlMs, bcWindows,
                                          cached, index, dlOk, unzipOk, archiveTime)
            IN  /\ bcCache' = r.cache
                /\ bcLast' = [made |-> TRUE, cacheTtlMs |-> cacheTtlMs,
                              now |-> bcNow, cacheBefore |-> bcCache,
                              cacheAfter |-> r.cache, outcome |-> r.outcome,
                              path |-> r.path, indexQueries |-> r.indexQueries,
                              downloads |-> r.downloads,
                              extractions |-> r.extractions,
                              resolved |->
                                IF r.indexQueries = 1 /\ index.ok
                                THEN findAsset(index.releases, Target).version
                                ELSE <<>>,
                              touchedAt |->
                                IF bcLast.outcome = "touched"
                                THEN bcLast.now ELSE 0]
                /\ UNCHANGED <<bcWindows, bcNow, notBinary>>

\* The clock advances.
BinaryTick ==
    /\ bcNow < MaxClock
    /\ bcNow' = bcNow + 1
    /\ UNCHANGED <<bcWindows, bcCache, bcLast, notBinary>>

InitBinarySpec ==
    /\ nEnv = 0
    /\ envIsFn = FALSE
    /\ nFn = 0
    /\ deployBlocks = SyncDeploy
    /\ InitPlugin
    /\ dbDelay = 0
    /\ InitDebounce
    /\ hcTimeout = 0
    /\ hcHasPid = TRUE
    /\ InitHealth
    /\ ksDir = FALSE
    /\ InitKeys
    /\ InitStateId
    /\ bcWindows \in BOOLEAN
    /\ bcCache \in {EmptyDir, [EmptyDir EXCEPT ![StrayZip] = 1]}
    /\ InitBinary
    /\ InitBackend
    /\ InitAdminKey
    /\ lcPlugin = "backend.ts"
    /\ InitLifecycle
    /\ InitIgnore
    /\ InitAsset
    /\ InitVarint
    /\ InitWatch

NextBinary ==
    \/ \E cacheTtlMs \in 0..MaxTtl, index \in Indexes, dlOk \in BOOLEAN,
          unzipOk \in BOOLEAN, archiveTime \in {1, bcNow} :
            /\ dlOk \/ ~unzipOk
            /\ unzipOk \/ archiveTime = bcNow
            /\ DownloadConvexBinary(cacheTtlMs, index, dlOk, unzipOk, archiveTime)
    \/ BinaryTick

SpecBinary == InitBinarySpec /\ [][NextBinary]_vars

\* ------------------------------------------------ a ConvexBackend object
\* What the backend-object machine leaves alone.
notBackend == <<optVars, pluginVars, histVars, debounceVars, healthVars, keysVars,
               stateIdVars, binaryVars, adminKeyVars, lifeVars, ignoreVars,
    assetVars, varintVars, watchVars>>

\* Ports findUnusedPort may answer with.
Ports == {3210, 3211}

Called(obj, outcome, fetches, subprocesses) ==
    [obj |-> obj, outcome |-> outcome, fetches |-> fetches,
     subprocesses |-> subprocesses]

\* setEnv(name, value); response is what fetch meets.
setEnv(obj, response) ==
    IF obj.port = 0 THEN Called(obj, "Backend not started", 0, 0)
    ELSE Called(obj, IF response = "ok" THEN "ok" ELSE "failed", 1, 0)

\* runFunction(functionName, args)
runFunction(obj, response) ==
    IF obj.port = 0 THEN Called(obj, "Backend not started", 0, 0)
    ELSE Called(obj, IF response = "ok" THEN "ok" ELSE "failed", 1, 0)

\* ConvexBackend.deploy without its port test.
backendDeployNoGuard(obj, result) ==
    Called(obj, IF result = "ok" THEN "ok" ELSE "failed", 0, 1)

\* ConvexBackend.deploy(); result is that of spawnSync("bun", ["convex",
\* "deploy", ..]): "ok", "error" (could not spawn) or "status" (non-zero).
backendDeploy(obj, result) ==
    IF obj.port = 0 THEN Called(obj, "Backend not started", 0, 0)
    ELSE Called(obj, IF result = "ok" THEN "ok" ELSE "failed", 0, 1)

Record(op, r) ==
    [made |-> TRUE, op |-> op, before |-> beObj, after |-> r.obj,
     outcome |-> r.outcome, fetches |-> r.fetches,
     subprocesses |-> r.subprocesses, signals |-> 0, removals |-> 0,
     warned |-> FALSE, cleanup |-> FALSE, killed |-> FALSE, removed |-> FALSE,
     stopped |-> beLast.stopped \/ (beLast.op = "stop" /\ beLast.before.pid # 0),
     childBefore |-> beChildAlive, dirBefore |-> beDirExists,
     started |-> beLast.started, childAfter |-> beChildAlive,
     healthOk |-> FALSE]

\* startBackend that kills and forgets the child when the health check
\* times out.
startBackendKillsOnTimeout(obj, binaryOk, port, siteProxyPort, pidOk, healthOk) ==
    IF ~binaryOk
    THEN [obj |-> obj, outcome |-> "failed", childAlive |-> FALSE, signals |-> 0]
    ELSE IF ~healthOk
    THEN [obj |-> [port |-> port, siteProxyPort |-> siteProxyPort,
                   spawned |-> FALSE, pid |-> 0],
          outcome |-> "Timed out", childAlive |-> FALSE, signals |-> 1]
    ELSE [obj |-> [port |-> port, siteProxyPort |-> siteProxyPort,
                   spawned |-> TRUE, pid |-> IF pidOk THEN 4242 ELSE 0],
          outcome |-> IF ~pidOk THEN "no PID assigned" ELSE "ok",
          childAlive |-> pidOk, signals |-> 0]

\* startBackend without the test of this.process.pid after the health check.
startBackendNoPidTest(obj, binaryOk, port, siteProxyPort, pidOk, healthOk) ==
    IF ~binaryOk
    THEN [obj |-> obj, outcome |-> "failed", childAlive |-> FALSE, signals |-> 0]
    ELSE [obj |-> [port |-> port, siteProxyPort |-> siteProxyPort,
                   spawned |-> TRUE, pid |-> IF pidOk THEN 4242 ELSE 0],
          outcome |-> IF ~healthOk THEN "Timed out" ELSE "ok",
          childAlive |-> pidOk, signals |-> 0]

\* startBackend(backendDir) after mkdirSync of the storage directory: the
\* binary (a failed download rejects before anything is assigned), the two
\* ports, the spawn (a child without a pid did not start), the health check
\* and the test of this.process.pid. Nothing signals the child.
startBackend(obj, binaryOk, port, siteProxyPort, pidOk, healthOk) ==
    IF ~binaryOk
    THEN [obj |-> obj, outcome |-> "failed", childAlive |-> FALSE, signals |-> 0]
    ELSE [obj |-> [port |-> port, siteProxyPort |-> siteProxyPort,
                   spawned |-> TRUE, pid |-> IF pidOk THEN 4242 ELSE 0],
          outcome |-> IF ~healthOk THEN "Timed out"
                      ELSE IF ~pidOk THEN "no PID assigned" ELSE "ok",
          childAlive |-> pidOk, signals |-> 0]

StartBackend(binaryOk, port, siteProxyPort, pidOk, healthOk) ==
    LET s == startBackend(beObj, binaryOk, port, siteProxyPort, pidOk, healthOk)
    IN  /\ ~beObj.spawned
        /\ beDirExists' = TRUE
        /\ beObj' = s.obj
        /\ beChildAlive' = s.childAlive
        /\ beLast' = [Record("startBackend",
                             Called(s.obj, s.outcome, 1, IF binaryOk THEN 1 ELSE 0))
                        EXCEPT !.signals = s.signals, !.started = s.outcome,
                               !.childAfter = s.childAlive,
                               !.healthOk = binaryOk /\ healthOk]
        /\ UNCHANGED notBackend

SetEnv(response) ==
    LET r == setEnv(beObj, response)
    IN  /\ beObj' = r.obj
        /\ beLast' = Record("setEnv", r)
        /\ UNCHANGED <<beChildAlive, beDirExists, notBackend>>

RunFunction(response) ==
    LET r == runFunction(beObj, response)
    IN  /\ beObj' = r.obj
        /\ beLast' = Record("runFunction", r)
        /\ UNCHANGED <<beChildAlive, beDirExists, notBackend>>

BackendDeploy(result) ==
    LET r == backendDeploy(beObj, result)
    IN  /\ beObj' = r.obj
        /\ beLast' = Record("deploy", r)
        /\ UNCHANGED <<beChildAlive, beDirExists, notBackend>>

\* stop that raises the failure of process.kill and does not purge after it.
backendStopKillRaises(obj, cleanup, childAlive, dirExists, killOk, rmOk) ==
    IF ~obj.spawned \/ obj.pid = 0
    THEN [outcome |-> "ok", signals |-> 0, warned |-> FALSE, removals |-> 0,
          childAlive |-> childAlive, dirExists |-> dirExists]
    ELSE IF ~(childAlive /\ killOk)
    THEN [outcome |-> "failed", signals |-> 1, warned |-> FALSE, removals |-> 0,
          childAlive |-> childAlive, dirExists |-> dirExists]
    ELSE [outcome |-> IF cleanup /\ ~(dirExists /\ rmOk) THEN "failed" ELSE "ok",
          signals |-> 1, warned |-> FALSE,
          removals |-> IF cleanup THEN 1 ELSE 0,
          childAlive |-> FALSE,
          dirExists |-> IF cleanup /\ rmOk THEN FALSE ELSE dirExists]

\* stop(cleanup): nothing without a process with a pid; else
\* process.kill(pid, "SIGTERM"), which throws when there is no such process
\* or no permission (killOk), caught and warned about; then, with cleanup,
\* fsp.rm(this.backendDir, { recursive: true }), which rejects when the
\* directory is not there or cannot be removed (rmOk), and stop with it.
backendStop(obj, cleanup, childAlive, dirExists, killOk, rmOk) ==
    IF ~obj.spawned \/ obj.pid = 0
    THEN [outcome |-> "ok", signals |-> 0, warned |-> FALSE, removals |-> 0,
          childAlive |-> childAlive, dirExists |-> dirExists]
    ELSE [outcome |-> IF cleanup /\ ~(dirExists /\ rmOk) THEN "failed" ELSE "ok",
          signals |-> 1,
          warned |-> ~(childAlive /\ killOk),
          removals |-> IF cleanup THEN 1 ELSE 0,
          childAlive |-> IF killOk THEN FALSE ELSE childAlive,
          dirExists |-> IF cleanup /\ rmOk THEN FALSE ELSE dirExists]

Stop(cleanup, killOk, rmOk) ==
    LET s == backendStop(beObj, cleanup, beChildAlive, beDirExists, killOk, rmOk)
    IN  /\ beChildAlive' = s.childAlive
        /\ beDirExists' = s.dirExists
        /\ beLast' = [Record("stop", Called(beObj, s.outcome, 0, 0))
                        EXCEPT !.signals = s.signals, !.warned = s.warned,
                               !.removals = s.removals, !.cleanup = cleanup,
                               !.killed = beChildAlive /\ killOk,
                               !.removed = cleanup /\ beDirExists /\ rmOk,
                               !.childAfter = s.childAlive]
        /\ UNCHANGED <<beObj, notBackend>>

\* The child process exits by itself.
ChildExit ==
    /\ beChildAlive
    /\ beChildAlive' = FALSE
    /\ UNCHANGED <<beObj, beDirExists, beLast, notBackend>>

Responses == {"ok", "status", "error"}

InitBackendSpec ==
    /\ nEnv = 0
    /\ envIsFn = FALSE
    /\ nFn = 0
    /\ deployBlocks = SyncDeploy
    /\ InitPlugin
    /\ dbDelay = 0
    /\ InitDebounce
    /\ hcTimeout = 0
    /\ hcHasPid = TRUE
    /\ InitHealth
    /\ ksDir = FALSE
    /\ InitKeys
    /\ InitStateId
    /\ bcWindows = FALSE
    /\ bcCache = EmptyDir
    /\ InitBinary
    /\ InitBackend
    /\ InitAdminKey
    /\ lcPlugin = "backend.ts"
    /\ InitLifecycle
    /\ InitIgnore
    /\ InitAsset
    /\ InitVarint
    /\ InitWatch

NextBackend ==
    \/ \E binaryOk \in BOOLEAN, port \in Ports, siteProxyPort \in Ports,
          pidOk \in BOOLEAN, healthOk \in BOOLEAN :
            StartBackend(binaryOk, port, siteProxyPort, pidOk, healthOk)
    \/ \E response \in Responses : SetEnv(response)
    \/ \E response \in Responses : RunFunction(response)
    \/ \E result \in Responses : BackendDeploy(result)
    \/ \E cleanup \in BOOLEAN, killOk \in BOOLEAN, rmOk \in BOOLEAN :
            Stop(cleanup, killOk, rmOk)
    \/ ChildExit

SpecBackend == InitBackendSpec /\ [][NextBackend]_vars

\* ----------------------------------------------------- generateAdminKey
\* Buffers are sequences of bytes (0..255), strings sequences of characters.
\* HMAC-SHA256 and AES-128-GCM-SIV are replaced by small stand-ins that keep
\* what the token format relies on: both are functions of their inputs, the
\* ciphertext is the plaintext's length plus a 16-byte tag, and decrypting
\* gives the plaintext back only under the same key, nonce and associated
\* data.
notAdminKey == <<optVars, pluginVars, histVars, debounceVars, healthVars, keysVars,
                stateIdVars, binaryVars, backendVars, lifeVars, ignoreVars,
    assetVars, varintVars, watchVars>>

HexUpper == <<"0", "1", "2", "3", "4", "5", "6", "7", "8", "9",
              "A", "B", "C", "D", "E", "F">>

IsHexDigit(c) == \E i \in 1..16 : HexDigits[i] = c \/ HexUpper[i] = c

HexValue(c) == (CHOOSE i \in 1..16 : HexDigits[i] = c \/ HexUpper[i] = c) - 1

\* buffer.toString("hex")
toHex(bytes) ==
    [i \in 1..(2 * Len(bytes)) |->
        LET b == bytes[(i + 1) \div 2]
        IN  HexDigits[(IF i % 2 = 1 THEN b \div 16 ELSE b % 16) + 1]]

\* Buffer.from(string, "hex"): pairs of hex digits up to the first pair that
\* is not one; an odd last character is dropped.
RECURSIVE fromHex(_)
fromHex(string) ==
    IF Len(string) < 2 \/ ~IsHexDigit(string[1]) \/ ~IsHexDigit(string[2])
    THEN <<>>
    ELSE <<16 * HexValue(string[1]) + HexValue(string[2])>>
            \o fromHex(SubSeq(string, 3, Len(string)))

\* Stand-in for one HMAC-SHA256 block over counter and info, keyed by secret.
hmac(secret, counter, info) ==
    [j \in 1..32 |-> (secret[((j - 1) % Len(secret)) + 1] + counter + j + Len(info)) % 256]

\* kbkdfCtrHmac(secret, info, outputLen), for outputLen <= 32: one iteration.
kbkdfCtrHmac(secret, info, outputLen) ==
    SubSeq(hmac(secret, 1, info), 1, outputLen)

\* encodeVarint whose loop goes on while v >= 0x7f.
RECURSIVE encodeVarintLoopsAt127(_)
encodeVarintLoopsAt127(value) ==
    IF value >= 127
    THEN <<(value % 128) + 128>> \o encodeVarintLoopsAt127(value \div 128)
    ELSE <<value>>

\* encodeVarint(value) for value >= 0
RECURSIVE encodeVarint(_)
encodeVarint(value) ==
    IF value > 127
    THEN <<(value % 128) + 128>> \o encodeVarint(value \div 128)
    ELSE <<value>>

\* encodeTag(fieldNumber, wireType): (fieldNumber << 3) | wireType, wireType < 8
encodeTag(fieldNumber, wireType) == encodeVarint(fieldNumber * 8 + wireType)

WIRE_TYPE_VARINT == 0

\* encodeAdminKeyProto that leaves field 5 out.
encodeAdminKeyProtoNoFlag(issuedS, memberId, isReadOnly) ==
    encodeTag(2, WIRE_TYPE_VARINT) \o encodeVarint(issuedS)
        \o encodeTag(3, WIRE_TYPE_VARINT) \o encodeVarint(memberId)

encodeAdminKeyProto(issuedS, memberId, isReadOnly) ==
    encodeTag(2, WIRE_TYPE_VARINT) \o encodeVarint(issuedS)
        \o encodeTag(3, WIRE_TYPE_VARINT) \o encodeVarint(memberId)
        \o (IF isReadOnly
            THEN encodeTag(5, WIRE_TYPE_VARINT) \o encodeVarint(1)
            ELSE <<>>)

ADMIN_KEY_VERSION == 1

ADMIN_KEY_PURPOSE == <<"a", "d", "m", "i", "n", " ", "k", "e", "y">>

RECURSIVE SumBytes(_)
SumBytes(bytes) == IF bytes = <<>> THEN 0 ELSE Head(bytes) + SumBytes(Tail(bytes))

\* Stand-in for the keystream of gcmsiv(key, nonce, aad).
keystream(key, nonce, i) ==
    (key[((i - 1) % Len(key)) + 1] + nonce[((i - 1) % Len(nonce)) + 1] + i) % 256

\* Stand-in for its 16-byte authentication tag.
authTag(key, nonce, aad, plaintext) ==
    [j \in 1..16 |->
        (key[((j - 1) % Len(key)) + 1] + nonce[((j - 1) % Len(nonce)) + 1]
            + SumBytes(aad) + SumBytes(plaintext) + Len(plaintext) + j) % 256]

\* gcmsiv(key, nonce, aad).encrypt(plaintext): ciphertext, then the tag.
gcmsivEncrypt(key, nonce, aad, plaintext) ==
    [i \in 1..Len(plaintext) |-> (plaintext[i] + keystream(key, nonce, i)) % 256]
        \o authTag(key, nonce, aad, plaintext)

\* generateAdminKey that tests the number of characters of instanceSecret
\* (64) in place of the number of bytes it decodes to.
generateAdminKeyByCharacters(instanceSecret, instanceName, memberId, isReadOnly, now, nonce) ==
    LET secret == fromHex(instanceSecret)
    IN  IF Len(instanceSecret) # 64
        THEN [threw |-> TRUE, secretLength |-> Len(secret), adminKey |-> <<>>]
        ELSE LET aesKey == kbkdfCtrHmac(secret \o <<0>>, ADMIN_KEY_PURPOSE, 16)
                 issuedS == now \div 1000
                 plaintext == encodeAdminKeyProto(issuedS, memberId, isReadOnly)
                 aad == <<ADMIN_KEY_VERSION>>
                 ciphertext == gcmsivEncrypt(aesKey, nonce, aad, plaintext)
                 encrypted == <<ADMIN_KEY_VERSION>> \o nonce \o ciphertext
             IN  [threw |-> FALSE, secretLength |-> Len(secret),
                  adminKey |-> instanceName \o <<"|">> \o toHex(encrypted)]

\* generateAdminKey(instanceSecret, instanceName, memberId, isReadOnly) at
\* Date.now() = now with crypto.randomBytes(12) = nonce.
generateAdminKey(instanceSecret, instanceName, memberId, isReadOnly, now, nonce) ==
    LET secret == fromHex(instanceSecret)
    IN  IF Len(secret) # 32
        THEN [threw |-> TRUE, secretLength |-> Len(secret), adminKey |-> <<>>]
        ELSE LET aesKey == kbkdfCtrHmac(secret, ADMIN_KEY_PURPOSE, 16)
                 issuedS == now \div 1000
                 plaintext == encodeAdminKeyProto(issuedS, memberId, isReadOnly)
                 aad == <<ADMIN_KEY_VERSION>>
                 ciphertext == gcmsivEncrypt(aesKey, nonce, aad, plaintext)
                 encrypted == <<ADMIN_KEY_VERSION>> \o nonce \o ciphertext
             IN  [threw |-> FALSE, secretLength |-> 32,
                  adminKey |-> instanceName \o <<"|">> \o toHex(encrypted)]

GenerateAdminKey(instanceSecret, instanceName, memberId, isReadOnly, now, nonce) ==
    LET r == generateAdminKey(instanceSecret, instanceName, memberId, isReadOnly,
                              now, nonce)
    IN  /\ ~akLast.made
        /\ akLast' = [made |-> TRUE, instanceSecret |-> instanceSecret,
                      instanceName |-> instanceName, memberId |-> memberId,
                      isReadOnly |-> isReadOnly, now |-> now, nonce |-> nonce,
                      threw |-> r.threw, secretLength |-> r.secretLength,
                      adminKey |-> r.adminKey]
        /\ UNCHANGED notAdminKey

Repeat(string, n) == [i \in 1..(n * Len(string)) |-> string[((i - 1) % Len(string)) + 1]]

\* One call per behaviour: generateAdminKey keeps no state between calls.
\* Secrets a caller may pass: 64 hex characters in either case, 62, 66 and 65
\* characters, 64 characters with a pair that is not hex at the end or at
\* the start, and the empty string.
InstanceSecrets ==
    { Repeat(<<"4", "f">>, 32),
      Repeat(<<"A", "0">>, 32),
      Repeat(<<"4", "f">>, 31),
      Repeat(<<"4", "f">>, 33),
      Repeat(<<"4", "f">>, 32) \o <<"7">>,
      Repeat(<<"4", "f">>, 31) \o <<"z", "z">>,
      <<"4", "g">> \o Repeat(<<"4", "f">>, 31),
      <<>> }

InstanceNames == { <<"d", "e", "v">>, <<"a", "|", "b">> }

MemberIds == {0, 1, 300}

Nows == {0, 999, 1000, 127999, 128000, 16384000}

Nonces == { [i \in 1..12 |-> i], [i \in 1..12 |-> 256 - i] }

InitAdminKeySpec ==
    /\ nEnv = 0
    /\ envIsFn = FALSE
    /\ nFn = 0
    /\ deployBlocks = SyncDeploy
    /\ InitPlugin
    /\ dbDelay = 0
    /\ InitDebounce
    /\ hcTimeout = 0
    /\ hcHasPid = TRUE
    /\ InitHealth
    /\ ksDir = FALSE
    /\ InitKeys
    /\ InitStateId
    /\ bcWindows = FALSE
    /\ bcCache = EmptyDir
    /\ InitBinary
    /\ InitBackend
    /\ InitAdminKey
    /\ lcPlugin = "backend.ts"
    /\ InitLifecycle
    /\ InitIgnore
    /\ InitAsset
    /\ InitVarint
    /\ InitWatch

NextAdminKey ==
    \E instanceSecret \in InstanceSecrets, instanceName \in InstanceNames,
       memberId \in MemberIds, isReadOnly \in BOOLEAN, now \in Nows,
       nonce \in Nonces :
        GenerateAdminKey(instanceSecret, instanceName, memberId, isReadOnly,
                         now, nonce)

SpecAdminKey == InitAdminKeySpec /\ [][NextAdminKey]_vars

\* ------------------------------------- plugin instances and host processes
\* The hooks of convexLocal over the life of host processes: Vite creates a
\* plugin instance each time it loads vite.config (at start and at every
\* restart), calls its config and configureServer hooks, closes the server
\* of the instance before, and the host process gets SIGINT or SIGTERM.
\* lcPlugin tells the two convexLocal of the sources apart: the one of
\* backend.ts (373-645) and the one of index.ts (69-250). The child of
\* instance i has pid i.
notLifecycle == <<optVars, pluginVars, histVars, debounceVars, healthVars, keysVars,
                 stateIdVars, binaryVars, backendVars, adminKeyVars, ignoreVars,
    assetVars, varintVars, watchVars>>

Current == lcInstances

OwnersOf(handlers) == {handlers[k] : k \in 1..Len(handlers)}

\* stop(cleanup) of a ConvexBackend b: whether it signals the child and
\* whether it removes this.backendDir.
stop(b, cleanup) == [signal |-> b.pid # 0, remove |-> b.pid # 0 /\ cleanup]

\* cleanup that stops the backend with its state directory.
cleanupRemoving(b) ==
    IF b.set THEN stop(b, TRUE) ELSE [signal |-> FALSE, remove |-> FALSE]

\* cleanup of index.ts: backend.stop(false) if there is a backend.
cleanup(b) ==
    IF b.set THEN stop(b, FALSE) ELSE [signal |-> FALSE, remove |-> FALSE]

\* The removal of the state directory at a start: options.reset && stateExists.
resetRemoves(reset, stateExists) == reset /\ stateExists

MaxAttempts == 100

\* findUnusedPortSync(startPort): the first of the maxAttempts ports from
\* startPort on that isPortAvailableSync finds free (not in busy); 0 stands
\* for its throwing when there is none.
findUnusedPortSync(startPort, busy) ==
    LET free == {p \in startPort..(startPort + MaxAttempts - 1) : p \notin busy}
    IN  IF free = {} THEN 0
        ELSE CHOOSE p \in free : \A q \in free : p <= q

\* The ports of convexLocal in backend.ts: options.port ?? a search from a
\* random port, options.siteProxyPort ?? a search from port + 1. An option
\* of 0 stands for one that is not given.
pluginPorts(optPort, optSiteProxyPort, random, busy) ==
    LET port == IF optPort # 0 THEN optPort ELSE findUnusedPortSync(random, busy)
    IN  [port |-> port,
         siteProxyPort |-> IF optSiteProxyPort # 0 THEN optSiteProxyPort
                           ELSE findUnusedPortSync(port + 1, busy)]

PortOptions == {0} \cup Ports

BusyPorts == SUBSET Ports

\* Vite loads vite.config: convexLocal(options) makes a new instance; the
\* one of backend.ts settles its two ports at once, the one of index.ts
\* leaves them to startBackend.
ConvexLocal(reset, optPort, optSiteProxyPort, random, busy) ==
    /\ lcHost = "running"
    /\ lcInstances < MaxInstances
    /\ lcHook \in {"none", "timer", "started", "failed"}
    /\ lcLate' = IF lcHook = "timer"
                 THEN lcLate \cup {[instance |-> Current, reset |-> lcReset]}
                 ELSE lcLate
    /\ lcInstances' = lcInstances + 1
    /\ lcReset' = reset
    /\ lcHook' = "created"
    /\ IF lcPlugin = "backend.ts"
       THEN LET p == pluginPorts(optPort, optSiteProxyPort, random, busy)
            IN  /\ lcPort' = p.port
                /\ lcSiteProxyPort' = p.siteProxyPort
       ELSE /\ lcPort' = 0
            /\ lcSiteProxyPort' = 0
    /\ UNCHANGED <<lcPlugin, lcHost, lcHosts, lcBackends, lcRunning,
                   lcExitRegistered, lcSigint, lcSigterm, lcServers, lcAlive,
                   lcKillQueue, lcDirExists, lcRemovals, lcSeen, notLifecycle>>

\* config of backend.ts: the backend of the instance before is killed
\* through setImmediate.
Config ==
    /\ lcPlugin = "backend.ts"
    /\ lcHost = "running"
    /\ lcHook = "created"
    /\ lcHook' = "configured"
    /\ lcRunning' = 0
    /\ lcKillQueue' = IF lcRunning # 0 THEN lcKillQueue \cup {lcRunning}
                      ELSE lcKillQueue
    /\ UNCHANGED <<lcPlugin, lcHost, lcHosts, lcInstances, lcReset, lcBackends,
                   lcExitRegistered, lcSigint, lcSigterm, lcServers, lcAlive,
                   lcDirExists, lcRemovals, lcSeen, lcPort, lcSiteProxyPort,
                   lcLate, notLifecycle>>

\* The setImmediate callback of config: process.kill(pid, "SIGKILL").
RestartKill(pid) ==
    /\ lcHost = "running"
    /\ pid \in lcKillQueue
    /\ lcKillQueue' = lcKillQueue \ {pid}
    /\ lcAlive' = lcAlive \ {pid}
    /\ lcSeen' = lcSeen \cup {"restart kill"}
    /\ UNCHANGED <<lcPlugin, lcHost, lcHosts, lcInstances, lcReset, lcHook,
                   lcBackends, lcRunning, lcExitRegistered, lcSigint, lcSigterm,
                   lcServers, lcDirExists, lcRemovals, lcPort, lcSiteProxyPort,
                   lcLate, notLifecycle>>

\* configureServer of backend.ts: the exit handlers once per process, the
\* watcher, and the timer of startBackendInit.
ConfigureServer ==
    /\ lcPlugin = "backend.ts"
    /\ lcHost = "running"
    /\ lcHook = "configured"
    /\ lcHook' = "timer"
    /\ lcExitRegistered' = TRUE
    /\ lcSigint' = IF ~lcExitRegistered THEN Append(lcSigint, Current) ELSE lcSigint
    /\ lcSigterm' = IF ~lcExitRegistered THEN Append(lcSigterm, Current) ELSE lcSigterm
    /\ lcServers' = lcServers \cup {Current}
    /\ UNCHANGED <<lcPlugin, lcHost, lcHosts, lcInstances, lcReset, lcBackends,
                   lcRunning, lcAlive, lcKillQueue, lcDirExists, lcRemovals,
                   lcSeen, lcPort, lcSiteProxyPort,
                   lcLate, notLifecycle>>

\* startBackendInit of instance i of backend.ts: reset, keys.json (kept, or
\* written after mkdirSync of the state directory), the backend and its
\* spawn, after which runningBackend is this backend.
startBackendInit(i, reset, spawnOk) ==
    /\ lcRemovals' = IF resetRemoves(reset, lcDirExists)
                     THEN lcRemovals \cup {[by |-> "reset", reset |-> reset]}
                     ELSE lcRemovals
    /\ lcDirExists' = TRUE
    /\ IF spawnOk
       THEN /\ lcBackends' = [lcBackends EXCEPT ![i] = [set |-> TRUE, pid |-> i]]
            /\ lcAlive' = lcAlive \cup {i}
            /\ lcRunning' = i
       ELSE /\ lcBackends' = [lcBackends EXCEPT ![i] = [set |-> TRUE, pid |-> 0]]
            /\ UNCHANGED <<lcAlive, lcRunning>>

\* The timer of configureServer fires for the current instance. A
\* setImmediate callback that config queued has run by then: the check phase
\* of the event loop comes before the timers phase of its next turn.
StartBackendInitHook(spawnOk) ==
    /\ lcPlugin = "backend.ts"
    /\ lcHost = "running"
    /\ lcHook = "timer"
    /\ lcKillQueue = {}
    /\ lcHook' = "started"
    /\ startBackendInit(Current, lcReset, spawnOk)
    /\ UNCHANGED <<lcPlugin, lcHost, lcHosts, lcInstances, lcReset,
                   lcExitRegistered, lcSigint, lcSigterm, lcServers, lcKillQueue,
                   lcSeen, lcPort, lcSiteProxyPort,
                   lcLate, notLifecycle>>

\* The timer of configureServer fires for an instance that Vite has
\* replaced since: nothing clears the timer, and startBackendInit runs as
\* it does for the current instance.
StartBackendInitLate(late, spawnOk) ==
    /\ lcPlugin = "backend.ts"
    /\ lcHost = "running"
    /\ late \in lcLate
    /\ lcKillQueue = {}
    /\ lcLate' = lcLate \ {late}
    /\ startBackendInit(late.instance, late.reset, spawnOk)
    /\ UNCHANGED <<lcPlugin, lcHost, lcHosts, lcInstances, lcReset, lcHook,
                   lcExitRegistered, lcSigint, lcSigterm, lcServers, lcKillQueue,
                   lcSeen, lcPort, lcSiteProxyPort, notLifecycle>>

\* config of index.ts: reset, the backend and startBackend, which makes the
\* storage directory and fails before the spawn if there is no binary.
ConfigOld(binaryOk, port, siteProxyPort) ==
    /\ lcPlugin = "index.ts"
    /\ lcHost = "running"
    /\ lcHook = "created"
    /\ lcHook' = IF binaryOk THEN "configured" ELSE "failed"
    /\ lcRemovals' = IF resetRemoves(lcReset, lcDirExists)
                     THEN lcRemovals \cup {[by |-> "reset", reset |-> lcReset]}
                     ELSE lcRemovals
    /\ lcDirExists' = TRUE
    /\ lcPort' = IF binaryOk THEN port ELSE lcPort
    /\ lcSiteProxyPort' = IF binaryOk THEN siteProxyPort ELSE lcSiteProxyPort
    /\ IF binaryOk
       THEN /\ lcBackends' = [lcBackends EXCEPT ![Current] = [set |-> TRUE, pid |-> Current]]
            /\ lcAlive' = lcAlive \cup {Current}
       ELSE /\ lcBackends' = [lcBackends EXCEPT ![Current] = [set |-> TRUE, pid |-> 0]]
            /\ UNCHANGED lcAlive
    /\ UNCHANGED <<lcPlugin, lcHost, lcHosts, lcInstances, lcReset, lcRunning,
                   lcExitRegistered, lcSigint, lcSigterm, lcServers, lcKillQueue,
                   lcSeen, lcLate, notLifecycle>>

\* configureServer of index.ts: the close handler of the server and a
\* SIGINT and a SIGTERM handler on process.
ConfigureServerOld ==
    /\ lcPlugin = "index.ts"
    /\ lcHost = "running"
    /\ lcHook = "configured"
    /\ lcHook' = "started"
    /\ IF lcBackends[Current].set
       THEN /\ lcServers' = lcServers \cup {Current}
            /\ lcSigint' = Append(lcSigint, Current)
            /\ lcSigterm' = Append(lcSigterm, Current)
       ELSE UNCHANGED <<lcServers, lcSigint, lcSigterm>>
    /\ UNCHANGED <<lcPlugin, lcHost, lcHosts, lcInstances, lcReset, lcBackends,
                   lcRunning, lcExitRegistered, lcAlive, lcKillQueue, lcDirExists,
                   lcRemovals, lcSeen, lcPort, lcSiteProxyPort,
                   lcLate, notLifecycle>>

\* The Vite server of instance i closes (at a restart or at shutdown).
\* backend.ts listens to no close event; index.ts runs cleanup.
ServerClose(i) ==
    /\ lcHost = "running"
    /\ i \in lcServers
    /\ lcServers' = lcServers \ {i}
    /\ lcSeen' = lcSeen \cup {"server close"}
    /\ IF lcPlugin = "index.ts"
       THEN LET c == cleanup(lcBackends[i])
            IN  /\ lcAlive' = IF c.signal THEN lcAlive \ {lcBackends[i].pid} ELSE lcAlive
                /\ lcDirExists' = IF c.remove THEN FALSE ELSE lcDirExists
                /\ lcRemovals' = IF c.remove
                                 THEN lcRemovals \cup {[by |-> "server close", reset |-> lcReset]}
                                 ELSE lcRemovals
                /\ lcBackends' = [lcBackends EXCEPT ![i] = NoBackend]
       ELSE UNCHANGED <<lcAlive, lcDirExists, lcRemovals, lcBackends>>
    /\ UNCHANGED <<lcPlugin, lcHost, lcHosts, lcInstances, lcReset, lcHook,
                   lcRunning, lcExitRegistered, lcSigint, lcSigterm, lcKillQueue,
                   lcPort, lcSiteProxyPort,
                   lcLate, notLifecycle>>

\* The host process gets SIGINT or SIGTERM. Without a handler it ends at
\* once; handleExit of backend.ts kills runningBackend and exits; the
\* handlers of index.ts each run cleanup and exit.
Signal(signal) ==
    LET handlers == IF signal = "SIGINT" THEN lcSigint ELSE lcSigterm
        owners == OwnersOf(handlers)
        stopped == {i \in owners : cleanup(lcBackends[i]).signal}
        removing == {i \in owners : cleanup(lcBackends[i]).remove}
    IN  /\ lcHost = "running"
        /\ lcHost' = "exited"
        /\ lcKillQueue' = {}
        /\ lcLate' = {}
        /\ lcSeen' = IF handlers # <<>> THEN lcSeen \cup {"exit handler"} ELSE lcSeen
        /\ IF handlers = <<>>
           THEN UNCHANGED <<lcAlive, lcDirExists, lcRemovals>>
           ELSE IF lcPlugin = "backend.ts"
           THEN /\ lcAlive' = lcAlive \ {lcRunning}
                /\ UNCHANGED <<lcDirExists, lcRemovals>>
           ELSE /\ lcAlive' = lcAlive \ {lcBackends[i].pid : i \in stopped}
                /\ lcDirExists' = IF removing # {} THEN FALSE ELSE lcDirExists
                /\ lcRemovals' = IF removing # {}
                                 THEN lcRemovals \cup {[by |-> "exit handler", reset |-> lcReset]}
                                 ELSE lcRemovals
        /\ UNCHANGED <<lcPlugin, lcHosts, lcInstances, lcReset, lcHook, lcBackends,
                       lcRunning, lcExitRegistered, lcSigint, lcSigterm, lcServers,
                       lcPort, lcSiteProxyPort,
                   notLifecycle>>

\* The developer starts the dev server again: a new host process, with the
\* module-level variables of a newly loaded module and no handlers, over
\* the same project directory.
HostStart ==
    /\ lcHost = "exited"
    /\ lcHosts < MaxHosts
    /\ lcHosts' = lcHosts + 1
    /\ lcHost' = "running"
    /\ lcHook' = "none"
    /\ lcBackends' = [i \in 1..MaxInstances |-> NoBackend]
    /\ lcRunning' = 0
    /\ lcExitRegistered' = FALSE
    /\ lcSigint' = <<>>
    /\ lcSigterm' = <<>>
    /\ lcServers' = {}
    /\ UNCHANGED <<lcPlugin, lcInstances, lcReset, lcAlive, lcKillQueue,
                   lcDirExists, lcRemovals, lcSeen, lcPort, lcSiteProxyPort,
                   lcLate, notLifecycle>>

InitLifecycleSpec ==
    /\ nEnv = 0
    /\ envIsFn = FALSE
    /\ nFn = 0
    /\ deployBlocks = SyncDeploy
    /\ InitPlugin
    /\ dbDelay = 0
    /\ InitDebounce
    /\ hcTimeout = 0
    /\ hcHasPid = TRUE
    /\ InitHealth
    /\ ksDir = FALSE
    /\ InitKeys
    /\ InitStateId
    /\ bcWindows = FALSE
    /\ bcCache = EmptyDir
    /\ InitBinary
    /\ InitBackend
    /\ InitAdminKey
    /\ lcPlugin \in {"backend.ts", "index.ts"}
    /\ InitLifecycle
    /\ InitIgnore
    /\ InitAsset
    /\ InitVarint
    /\ InitWatch

NextLifecycle ==
    \/ \E reset \in BOOLEAN, optPort \in PortOptions,
          optSiteProxyPort \in PortOptions, random \in Ports, busy \in BusyPorts :
            ConvexLocal(reset, optPort, optSiteProxyPort, random, busy)
    \/ Config
    \/ \E pid \in 1..MaxInstances : RestartKill(pid)
    \/ ConfigureServer
    \/ \E spawnOk \in BOOLEAN : StartBackendInitHook(spawnOk)
    \/ \E late \in lcLate, spawnOk \in BOOLEAN : StartBackendInitLate(late, spawnOk)
    \/ \E binaryOk \in BOOLEAN, port \in Ports, siteProxyPort \in Ports :
            ConfigOld(binaryOk, port, siteProxyPort)
    \/ ConfigureServerOld
    \/ \E i \in 1..MaxInstances : ServerClose(i)
    \/ \E signal \in {"SIGINT", "SIGTERM"} : Signal(signal)
    \/ HostStart

SpecLifecycle == InitLifecycleSpec /\ [][NextLifecycle]_vars

\* ------------------------------------------------- isIgnored (lint rule)
\* Keys and patterns are sequences of characters; patterns is the array
\* options.ignorePatterns, of which only the membership matters (some).
notIgnore == <<optVars, pluginVars, histVars, debounceVars, healthVars, keysVars,
              stateIdVars, binaryVars, backendVars, adminKeyVars, lifeVars,
              assetVars, varintVars, watchVars>>

\* string.endsWith(suffix)
EndsWithString(string, suffix) ==
    /\ Len(string) >= Len(suffix)
    /\ SubSeq(string, Len(string) - Len(suffix) + 1, Len(string)) = suffix

\* isIgnored(key, patterns)
isIgnored(key, patterns) ==
    \E pattern \in patterns :
        \/ key = pattern
        \/ /\ EndsWithString(pattern, <<".", "*">>)
           /\ StartsWith(key, SubSeq(pattern, 1, Len(pattern) - 1))

\* The key ExportNamedDeclaration builds: `${modulePath}.${declarator.id.name}`
FunctionKey(module, function) == module \o <<".">> \o function

Modules == { <<"g">>, <<"f", ".", "b">> }

Functions == { <<"x">>, <<"y">> }

IgnorePatterns ==
    { <<"g", ".", "*">>, <<"f", ".", "b", ".", "*">>, <<"f", ".", "*">>,
      <<"g", ".", "x">>, <<"f", ".", "b", ".", "y">>, <<"x">>, <<"y">> }

\* The rule looks at an exported function of a module under the configured
\* ignorePatterns. One call per behaviour: isIgnored keeps no state.
IsIgnored(module, function, patterns) ==
    /\ ~igLast.made
    /\ igLast' = [made |-> TRUE, module |-> module, function |-> function,
                  patterns |-> patterns,
                  result |-> isIgnored(FunctionKey(module, function), patterns)]
    /\ UNCHANGED notIgnore

InitIgnoreSpec ==
    /\ nEnv = 0
    /\ envIsFn = FALSE
    /\ nFn = 0
    /\ deployBlocks = SyncDeploy
    /\ InitPlugin
    /\ dbDelay = 0
    /\ InitDebounce
    /\ hcTimeout = 0
    /\ hcHasPid = TRUE
    /\ InitHealth
    /\ ksDir = FALSE
    /\ InitKeys
    /\ InitStateId
    /\ bcWindows = FALSE
    /\ bcCache = EmptyDir
    /\ InitBinary
    /\ InitBackend
    /\ InitAdminKey
    /\ lcPlugin = "backend.ts"
    /\ InitLifecycle
    /\ InitIgnore
    /\ InitAsset
    /\ InitVarint
    /\ InitWatch

NextIgnore ==
    \E module \in Modules, function \in Functions,
       patterns \in {ps \in SUBSET IgnorePatterns : Cardinality(ps) <= 2} :
        IsIgnored(module, function, patterns)

SpecIgnore == InitIgnoreSpec /\ [][NextIgnore]_vars

\* ------------------------------------------------------------ findAsset
\* What the findAsset machine leaves alone.
notAsset == <<optVars, pluginVars, histVars, debounceVars, healthVars, keysVars,
             stateIdVars, binaryVars, backendVars, adminKeyVars, lifeVars,
             ignoreVars,
    varintVars, watchVars>>

\* A file published next to the platform's zip whose name holds the target
\* as well.
SumsName ==
    <<"convex-local-backend-", "x86_64-unknown-linux-gnu", ".zip", ".sha256">>

\* release.assets of a release, by name.
AssetLists ==
    {<<>>, <<OtherAsset>>, <<ZipName>>, <<OtherAsset, ZipName>>,
     <<SumsName, ZipName>>}

\* The release indexes fetchConvexReleases may answer with: up to
\* MaxReleases releases, most recent first.
ReleaseIndexes ==
    UNION {[1..n -> {Release(tag, assets) : tag \in Tags, assets \in AssetLists}] :
            n \in 0..MaxReleases}

\* A call of findAsset(releases, target) on the modelled platform. One call
\* per behaviour: findAsset keeps no state.
FindAsset(releases) ==
    /\ ~faLast.made
    /\ faLast' = [made |-> TRUE, releases |-> releases,
                  found |-> findAsset(releases, Target).found,
                  asset |-> findAsset(releases, Target).asset,
                  version |-> findAsset(releases, Target).version]
    /\ UNCHANGED notAsset

InitAssetSpec ==
    /\ nEnv = 0
    /\ envIsFn = FALSE
    /\ nFn = 0
    /\ deployBlocks = SyncDeploy
    /\ InitPlugin
    /\ dbDelay = 0
    /\ InitDebounce
    /\ hcTimeout = 0
    /\ hcHasPid = TRUE
    /\ InitHealth
    /\ ksDir = FALSE
    /\ InitKeys
    /\ InitStateId
    /\ bcWindows = FALSE
    /\ bcCache = EmptyDir
    /\ InitBinary
    /\ InitBackend
    /\ InitAdminKey
    /\ lcPlugin = "backend.ts"
    /\ InitLifecycle
    /\ InitIgnore
    /\ InitAsset
    /\ InitVarint
    /\ InitWatch

NextAsset == \E releases \in ReleaseIndexes : FindAsset(releases)

SpecAsset == InitAssetSpec /\ [][NextAsset]_vars

\* --------------------------------------------------------- encodeVarint
\* What the encodeVarint machine leaves alone.
notVarint == <<optVars, pluginVars, histVars, debounceVars, healthVars, keysVars,
              stateIdVars, binaryVars, backendVars, adminKeyVars, lifeVars,
              ignoreVars, assetVars,
    watchVars>>

\* Buffer.from(bytes): every element is stored modulo 256.
BufferFrom(bytes) == [i \in 1..Len(bytes) |-> bytes[i] % 256]

\* The values encodeVarint is called with: every value up to MaxVarint, and
\* the values at which the encoding grows by a byte, up to the largest
\* 31-bit value.
VarintValues ==
    0..MaxVarint
    \cup {16383, 16384, 16385, 2097151, 2097152, 268435455, 268435456,
          2147483647}

\* A call of encodeVarint(value). One call per behaviour: encodeVarint keeps
\* no state.
EncodeVarint(value) ==
    /\ ~viLast.made
    /\ viLast' = [made |-> TRUE, value |-> value,
                  bytes |-> BufferFrom(encodeVarint(value))]
    /\ UNCHANGED notVarint

InitVarintSpec ==
    /\ nEnv = 0
    /\ envIsFn = FALSE
    /\ nFn = 0
    /\ deployBlocks = SyncDeploy
    /\ InitPlugin
    /\ dbDelay = 0
    /\ InitDebounce
    /\ hcTimeout = 0
    /\ hcHasPid = TRUE
    /\ InitHealth
    /\ ksDir = FALSE
    /\ InitKeys
    /\ InitStateId
    /\ bcWindows = FALSE
    /\ bcCache = EmptyDir
    /\ InitBinary
    /\ InitBackend
    /\ InitAdminKey
    /\ lcPlugin = "backend.ts"
    /\ InitLifecycle
    /\ InitIgnore
    /\ InitAsset
    /\ InitVarint
    /\ InitWatch

NextVarint == \E value \in VarintValues : EncodeVarint(value)

SpecVarint == InitVarintSpec /\ [][NextVarint]_vars

\* ---------------------------------------------------------- shouldWatch
\* What the shouldWatch machine leaves alone.
notWatch == <<optVars, pluginVars, histVars, debounceVars, healthVars, keysVars,
             stateIdVars, binaryVars, backendVars, adminKeyVars, lifeVars,
             ignoreVars, assetVars, varintVars>>

\* The regular expression matchPattern builds, as a sequence of tokens: "**"
\* becomes ".*" (Globstar), a remaining "*" becomes "[^/]*" (Star), "/" is
\* escaped, and every other character stands as it is in the expression, so
\* that a "." of the pattern is the expression's "." (AnyChar).
RECURSIVE RegexOf(_)
RegexOf(pattern) ==
    IF pattern = <<>> THEN <<>>
    ELSE IF Len(pattern) >= 2 /\ pattern[1] = "*" /\ pattern[2] = "*"
    THEN <<"Globstar">> \o RegexOf(SubSeq(pattern, 3, Len(pattern)))
    ELSE IF pattern[1] = "*" THEN <<"Star">> \o RegexOf(Tail(pattern))
    ELSE IF pattern[1] = "." THEN <<"AnyChar">> \o RegexOf(Tail(pattern))
    ELSE <<pattern[1]>> \o RegexOf(Tail(pattern))

\* The characters "." of a regular expression without the s flag does not
\* match; of them the modelled paths hold the line feed.
LineTerminators == {"\n", "\r"}

\* new RegExp(`^${regexPattern}$`).test(filePath), from token i and
\* character j on.
RECURSIVE Test(_, _, _, _)
Test(regex, i, filePath, j) ==
    IF i > Len(regex) THEN j > Len(filePath)
    ELSE IF regex[i] = "Globstar"
    THEN \/ Test(regex, i + 1, filePath, j)
         \/ /\ j <= Len(filePath)
            /\ filePath[j] \notin LineTerminators
            /\ Test(regex, i, filePath, j + 1)
    ELSE IF regex[i] = "Star"
    THEN \/ Test(regex, i + 1, filePath, j)
         \/ /\ j <= Len(filePath)
            /\ filePath[j] # "/"
            /\ Test(regex, i, filePath, j + 1)
    ELSE IF regex[i] = "AnyChar"
    THEN /\ j <= Len(filePath)
         /\ filePath[j] \notin LineTerminators
         /\ Test(regex, i + 1, filePath, j + 1)
    ELSE /\ j <= Len(filePath)
         /\ filePath[j] = regex[i]
         /\ Test(regex, i + 1, filePath, j + 1)

\* matchPattern(filePath, pattern)
matchPattern(filePath, pattern) == Test(RegexOf(pattern), 1, filePath, 1)

\* options.convexDir ?? "convex"
ConvexDir == <<"c", "o", "n", "v", "e", "x">>

\* options.watch?.patterns ?? [`${convexDir}/*.ts`, `${convexDir}/**/*.ts`]
DefaultWatchPatterns ==
    {ConvexDir \o <<"/", "*", ".", "t", "s">>, ConvexDir \o <<"/", "*", "*", "/", "*", ".", "t", "s">>}

\* options.watch?.ignore ?? [`${convexDir}/_generated/**`,
\*                           `${convexDir}/_generated/*.ts`]
DefaultIgnorePatterns ==
    {ConvexDir \o <<"/", "_", "g", "e", "n", "e", "r", "a", "t", "e", "d", "/", "*", "*">>,
     ConvexDir \o <<"/", "_", "g", "e", "n", "e", "r", "a", "t", "e", "d", "/", "*", ".", "t", "s">>}

\* options.projectDir
ProjectDir == <<"/", "p">>

\* const relativePath of shouldWatch
RelativePath(filePath, projectDir) ==
    IF StartsWith(filePath, projectDir)
    THEN SubSeq(filePath, Len(projectDir) + 2, Len(filePath))
    ELSE filePath

\* shouldWatch(filePath)
shouldWatch(filePath, projectDir, watchPatterns, ignorePatterns) ==
    LET relativePath == RelativePath(filePath, projectDir)
        matches == \E p \in watchPatterns : matchPattern(relativePath, p)
        ignored == \E p \in ignorePatterns : matchPattern(relativePath, p)
    IN  matches /\ ~ignored

\* Directories and file names of the project, relative to projectDir.
WatchedDirs ==
    {<<"c", "o", "n", "v", "e", "x", "/">>,
     <<"c", "o", "n", "v", "e", "x", "/", "_", "g", "e", "n", "e", "r", "a", "t", "e", "d", "/">>,
     <<"c", "o", "n", "v", "e", "x", "/", "d", "/">>,
     <<"c", "o", "n", "v", "e", "x", "/", "d", "/", "e", "/">>,
     <<"c", "o", "n", "v", "e", "x", "/", "_", "g", "e", "n", "e", "r", "a", "t", "e", "d", "/", "d", "/">>,
     <<"c", "o", "n", "v", "e", "x", "/", "d", "/", "_", "g", "e", "n", "e", "r", "a", "t", "e", "d", "/">>,
     <<"s", "r", "c", "/">>,
     <<>>}

WatchedFiles ==
    {<<"a", ".", "t", "s">>,
     <<"a", ".", "j", "s">>,
     <<"a", ".", "t", "s", "x">>,
     <<"a", "p", "i", ".", "d", ".", "t", "s">>,
     <<"a", "t", "s">>,
     <<".", "t", "s">>,
     <<"a", "\n", "b", ".", "t", "s">>,
     <<"_", "g", "e", "n", "e", "r", "a", "t", "e", "d", ".", "t", "s">>}

\* The paths the watcher reports: absolute, under projectDir, or as given to
\* the watcher.
FilePaths ==
    {d \o f : d \in WatchedDirs, f \in WatchedFiles}
    \cup {ProjectDir \o <<"/">> \o d \o f : d \in WatchedDirs, f \in WatchedFiles}

\* handleFileChange asks shouldWatch(filePath) under the default patterns.
\* One call per behaviour: shouldWatch keeps no state.
ShouldWatch(filePath) ==
    /\ ~swLast.made
    /\ swLast' = [made |-> TRUE, filePath |-> filePath,
                  relativePath |-> RelativePath(filePath, ProjectDir),
                  result |-> shouldWatch(filePath, ProjectDir,
                                         DefaultWatchPatterns,
                                         DefaultIgnorePatterns)]
    /\ UNCHANGED notWatch

InitWatchSpec ==
    /\ nEnv = 0
    /\ envIsFn = FALSE
    /\ nFn = 0
    /\ deployBlocks = SyncDeploy
    /\ InitPlugin
    /\ dbDelay = 0
    /\ InitDebounce
    /\ hcTimeout = 0
    /\ hcHasPid = TRUE
    /\ InitHealth
    /\ ksDir = FALSE
    /\ InitKeys
    /\ InitStateId
    /\ bcWindows = FALSE
    /\ bcCache = EmptyDir
    /\ InitBinary
    /\ InitBackend
    /\ InitAdminKey
    /\ lcPlugin = "backend.ts"
    /\ InitLifecycle
    /\ InitIgnore
    /\ InitAsset
    /\ InitVarint
    /\ InitWatch

NextWatch == \E filePath \in FilePaths : ShouldWatch(filePath)

SpecWatch == InitWatchSpec /\ [][NextWatch]_vars

C9_DeployFailureContained ==
    /\ (lastReturn.made /\ ~lastReturn.ok) =>
          /\ lastReturn.aliveAfter = lastReturn.aliveBefore
          /\ (lastReturn.by = "startup" =>
                  lastReturn.pcAfter \in {"deploy", "fn", "ready"})
          /\ (lastReturn.by # "startup" =>
                  lastReturn.pcAfter = lastReturn.pcBefore)
          /\ (lastReturn.n = 0 =>
                  ~lastReturn.isDeployingAfter /\ lastReturn.started = 0)
          /\ (lastReturn.n >= 1 =>
                  lastReturn.started = 1 /\ ~lastReturn.pendingAfter)
    /\ (lastReq.made /\ lastReq.afterFailure /\ lastReq.port
            /\ ~lastReq.inFlight) =>
          lastReq.started

C9_Witness ==
    /\ lastReturn.made /\ ~lastReturn.ok
    /\ lastReturn.n = 0
    /\ lastReq.made /\ lastReq.afterFailure /\ lastReq.started
    /\ processAlive

\* The startup steps of a run that meets no failure: each step's call and
\* its completion, in the order of startBackendInit (runFunction outcomes
\* shown as "fnEnd").
envSteps[i \in 0..(MaxEnv + 1)] ==
    IF i = 0 THEN <<>>
    ELSE envSteps[i - 1] \o << <<"setEnv", i>>, <<"setEnvOk", i>> >>

fnSteps[j \in 0..(MaxFns + 1)] ==
    IF j = 0 THEN <<>>
    ELSE fnSteps[j - 1] \o << <<"fnCall", j>>, <<"fnEnd", j>> >>

ExpectedSteps ==
    << <<"spawn", 0>>, <<"spawnOk", 0>>, <<"health", 0>>, <<"healthOk", 0>> >>
    \o envSteps[nEnv]
    \o << <<"deployCall", 0>>, <<"backendDeploy", 0>>, <<"deployReturn", 0>> >>
    \o fnSteps[nFn]
    \o << <<"ready", 0>> >>

NormSteps ==
    [k \in 1..Len(steps) |->
        IF steps[k][1] \in {"fnOk", "fnFailed"}
        THEN <<"fnEnd", steps[k][2]>> ELSE steps[k]]

IsPrefix(a, b) ==
    /\ Len(a) <= Len(b)
    /\ \A k \in 1..Len(a) : a[k] = b[k]

StepsOf(kind) == SelectSeq(steps, LAMBDA e : e[1] = kind)

\* C6: with the deploy primitive of src (it blocks until the deploy is done),
\* the steps of a startup that has not failed are, in this order and each
\* completed before the next is called: spawn, health check, setEnv 1..nEnv,
\* the initial deploy (deploy() called, backend.deploy() run, deploy()
\* returned), runFunction 1..nFn, "Backend ready"; a ready startup has done
\* them all.
C6_StartupOrder ==
    /\ (pc # "failed" => IsPrefix(NormSteps, ExpectedSteps))
    /\ (pc = "ready" => NormSteps = ExpectedSteps)

C6_Witness ==
    /\ pc = "ready"
    /\ nEnv >= 2
    /\ nFn >= 2
    /\ lastReturn.made /\ lastReturn.by = "startup"

\* C7: when a setEnv call of the startup fails, at index i, startup ends as
\* "Backend initialization failed": no later variable is set, deploy() is not
\* called by the startup and no onReady function is invoked, then or later.
EnvFailedAt(i) ==
    /\ Len(steps) >= 2
    /\ steps[Len(steps)] = <<"failed", 0>>
    /\ steps[Len(steps) - 1] = <<"setEnv", i>>

C7_EnvFailureAborts ==
    \A i \in 1..(MaxEnv + 1) :
        (\E k \in 1..Len(steps) :
              /\ steps[k] = <<"setEnv", i>>
              /\ k < Len(steps)
              /\ steps[k + 1] # <<"setEnvOk", i>>) =>
            /\ pc = "failed"
            /\ EnvFailedAt(i)
            /\ StepsOf("setEnv") = [k \in 1..i |-> <<"setEnv", k>>]
            /\ StepsOf("setEnvOk") = [k \in 1..(i - 1) |-> <<"setEnvOk", k>>]
            /\ StepsOf("deployCall") = <<>>
            /\ StepsOf("fnCall") = <<>>

C7_Witness ==
    /\ EnvFailedAt(1)
    /\ nEnv >= 2
    /\ nFn >= 1
    /\ pc = "failed"
    /\ lastReturn.made

\* C8: a failing onReady call is isolated: the functions called so far are
\* 1..fnIdx in list order, each once; a ready startup has called all of
\* 1..nFn; and a startup that has reached its onReady list does not fail.
C8_OnReadyIsolated ==
    /\ (pc = "fn" =>
            StepsOf("fnCall") = [j \in 1..fnIdx |-> <<"fnCall", j>>])
    /\ (pc = "ready" =>
            /\ StepsOf("fnCall") = [j \in 1..nFn |-> <<"fnCall", j>>]
            /\ Len(StepsOf("fnOk")) + Len(StepsOf("fnFailed")) = nFn)
    /\ (pc = "failed" => StepsOf("fnCall") = <<>>)
    /\ (StepsOf("fnCall") # <<>> => pc \in {"fn", "ready"})

C8_Witness ==
    /\ pc = "ready"
    /\ nFn >= 2
    /\ StepsOf("fnFailed") # <<>>
    /\ steps[Len(steps) - 1] = <<"fnOk", nFn>>
    /\ steps[Len(steps) - 3][1] = "fnFailed"

C5_HealthCheckTimesOut ==
    /\ (hcPc = "timedOut" =>
            /\ ~StatusOk(hcStatus)
            /\ hcCaller = "timeout"
            /\ hcNow >= hcDeadline
            /\ hcNow <= hcDeadline + hcLastLate + hcLastProbe)
    /\ (hcCaller = "timeout" => hcPc = "timedOut")
    /\ (hcPc \in {"probe", "sleep"} => hcNow <= hcDeadline + MaxLate)
    /\ (hcPc = "sleep" => hcWake <= hcDeadline /\ hcWake > hcNow)
    /\ hcAttempts <= hcTimeout \div BackoffBase + 1
    /\ hcNow <= hcDeadline + MaxLate + MaxProbe

C5_Witness ==
    /\ hcPc = "timedOut"
    /\ hcTimeout = HealthCheckTimeout
    /\ hcAttempts >= 5
    /\ hcNow = hcDeadline + MaxLate + MaxProbe
    /\ hcCaller = "timeout"

AllSame(run) == \A i \in 1..Len(run) : run[i] = run[1]

\* C10: a startup without reset that finds a keys.json it can read and parse
\* uses exactly the keys in it, whatever instanceName, instanceSecret and
\* adminKey the caller passes: nothing is generated, nothing is written and
\* the file is left as it was; so the startups since the latest reset or
\* damage to the file all use the keys of the first of them.
C10_PersistedKeysReused ==
    /\ (ksLast.made /\ ~ksLast.reset /\ ksLast.fileBefore.kind = "keys") =>
            /\ ksKeys = ksLast.fileBefore.keys
            /\ ksLast.fileAfter = ksLast.fileBefore
            /\ ~ksLast.wrote
            /\ ~ksLast.generated
    /\ AllSame(ksRun)

C10_Witness ==
    /\ ksLast.made /\ ~ksLast.reset
    /\ ksLast.fileBefore.kind = "keys"
    /\ ksLast.instanceName = "custom"
    /\ ksLast.instanceSecret # Undefined
    /\ ksLast.adminKey # Undefined
    /\ ksKeys.instanceName = "convex-local"
    /\ ksKeys.instanceSecret[1] = "generated"
    /\ Len(ksRun) >= 3

\* C10 as stated: whenever keys.json exists and no reset is requested, the
\* keys used are the persisted ones and the file is not rewritten; all the
\* startups since the latest reset use the keys of the first of them.
C10_AsStated ==
    /\ (ksLast.made /\ ~ksLast.reset /\ ksLast.fileBefore.kind # "absent") =>
            /\ ksLast.fileBefore.kind = "keys"
            /\ ksKeys = ksLast.fileBefore.keys
            /\ ksLast.fileAfter = ksLast.fileBefore
            /\ ~ksLast.wrote
    /\ AllSame(ksRunNoReset)

\* C11: a startup with reset removes the state directory when there is one,
\* before it resolves its keys, and never uses what keys.json held: its keys
\* are the caller's instanceSecret and adminKey when both are given (under
\* the caller's instanceName or "convex-local"), and otherwise a pair
\* generated in this startup, unlike the persisted one; either way they are
\* written to keys.json.
C11_ResetDiscardsPersistedKeys ==
    (ksLast.made /\ ksLast.reset) =>
        /\ ksLast.removed = ksLast.dirBefore
        /\ ksLast.wrote
        /\ ksLast.fileAfter = [kind |-> "keys", keys |-> ksKeys]
        /\ ksKeys.instanceName = NameOrDefault(ksLast.instanceName)
        /\ IF ksLast.instanceSecret # Undefined /\ ksLast.adminKey # Undefined
           THEN /\ ~ksLast.generated
                /\ ksKeys.instanceSecret = ksLast.instanceSecret
                /\ ksKeys.adminKey = ksLast.adminKey
           ELSE /\ ksLast.generated
                /\ ksKeys.instanceSecret = <<"generated", ksFresh>>
                /\ ksKeys.adminKey = <<"generated", ksFresh>>
                /\ ksKeys.instanceSecret # ksLast.fileBefore.keys.instanceSecret
                /\ ksKeys.adminKey # ksLast.fileBefore.keys.adminKey

C11_Witness ==
    /\ ksLast.made /\ ksLast.reset
    /\ ksLast.dirBefore /\ ksLast.removed
    /\ ksLast.fileBefore.kind = "keys"
    /\ ksLast.fileBefore.keys.instanceSecret[1] = "generated"
    /\ ksLast.generated
    /\ ksFresh = 2

SuffixDiffers(a, b) ==
    \/ Truthy(a) # Truthy(b)
    \/ Truthy(a) /\ a.value # b.value

\* The number of the inputs (branch, project directory, suffix) in which two
\* calls differ; an undefined and an empty suffix both count as no suffix.
InputsChanged(a, b) ==
    (IF a.branch # b.branch THEN 1 ELSE 0)
    + (IF a.projectDir # b.projectDir THEN 1 ELSE 0)
    + (IF SuffixDiffers(a.suffix, b.suffix) THEN 1 ELSE 0)

\* C13: two computations that differ in exactly one of branch, project
\* directory and suffix (no suffix against a suffix included) have different
\* digest inputs and, the digest being collision-free, different hashes and
\* different state identities.
C13_OneChangeNewIdentity ==
    (sidPrev.made /\ sidLast.made /\ InputsChanged(sidPrev, sidLast) = 1) =>
        /\ sidPrev.input # sidLast.input
        /\ SubSeq(sidPrev.id, Len(sidPrev.id) - 15, Len(sidPrev.id))
             # SubSeq(sidLast.id, Len(sidLast.id) - 15, Len(sidLast.id))
        /\ sidPrev.id # sidLast.id

C13_Witness ==
    /\ sidPrev.made /\ sidLast.made
    /\ sidPrev.branch = sidLast.branch
    /\ sidPrev.projectDir = sidLast.projectDir
    /\ sidPrev.suffix.value = <<"7", "/">>
    /\ sidLast.suffix.value = <<"7", ":">>
    /\ sidPrev.id # sidLast.id

LowerHex == Digits \cup {"a", "b", "c", "d", "e", "f"}

Replaced(c) == IF c \in Kept THEN c ELSE "-"

\* C14: the identity is the branch, then "-" and the suffix when there is
\* one, then "-" and 16 lowercase hex digits, where each character of branch
\* and suffix outside [A-Za-z0-9-] stands replaced by one hyphen; so it holds
\* only ASCII letters, digits and hyphens.
C14_IdentityFormat ==
    sidLast.made =>
        LET id == sidLast.id
            b == sidLast.branch
            s == sidLast.suffix
            n == Len(b)
            k == IF Truthy(s) THEN 1 + Len(s.value) ELSE 0
        IN  /\ Len(id) = n + k + 17
            /\ \A i \in 1..Len(id) : id[i] \in Kept
            /\ \A i \in 1..n : id[i] = Replaced(b[i])
            /\ (Truthy(s) =>
                    /\ id[n + 1] = "-"
                    /\ \A j \in 1..Len(s.value) : id[n + 1 + j] = Replaced(s.value[j]))
            /\ id[n + k + 1] = "-"
            /\ \A i \in (n + k + 2)..(n + k + 17) : id[i] \in LowerHex

C14_Witness ==
    /\ sidLast.made /\ sidPrev.made
    /\ sidPrev.branch = <<"f", "/", "x">>
    /\ ~sidPrev.suffix.defined
    /\ SubSeq(sidPrev.id, 1, 4) = <<"f", "-", "x", "-">>
    /\ Len(sidPrev.id) = 20
    /\ sidLast.branch = <<"a", ":", "Z">>
    /\ sidLast.suffix.value = <<"7", "/">>
    /\ SubSeq(sidLast.id, 1, 7) = <<"a", "-", "Z", "-", "7", "-", "-">>

\* The binaries downloadConvexBinary has cached on this platform and that
\* are within the TTL at the latest call.
FreshBinaries ==
    {f \in {BinaryName(v, bcWindows) : v \in Tags} :
        /\ bcLast.cacheBefore[f] > 0
        /\ bcLast.now - bcLast.cacheBefore[f] < bcLast.cacheTtlMs}

\* C15: a downloadConvexBinary call with cacheTtlMs > 0 that finds a cached
\* binary with an mtime within the TTL returns the path of such a binary (the
\* most recently modified one) with no release-index query, no download and
\* no extraction, and leaves the cache directory as it was.
C15_FreshCacheNoNetwork ==
    (bcLast.made /\ bcLast.cacheTtlMs > 0 /\ FreshBinaries # {}) =>
        /\ bcLast.outcome = "cached"
        /\ bcLast.path \in FreshBinaries
        /\ \A f \in FreshBinaries :
                bcLast.cacheBefore[f] <= bcLast.cacheBefore[bcLast.path]
        /\ bcLast.indexQueries = 0
        /\ bcLast.downloads = 0
        /\ bcLast.extractions = 0
        /\ bcLast.cacheAfter = bcLast.cacheBefore

C15_Witness ==
    /\ bcLast.made
    /\ bcLast.cacheTtlMs = 2
    /\ bcLast.outcome = "cached"
    /\ bcLast.now - bcLast.cacheBefore[bcLast.path] = 1
    /\ \E f \in FileNames :
            /\ f # bcLast.path
            /\ bcLast.cacheBefore[f] > 0
            /\ StartsWith(f, <<"convex-local-backend-", "precompiled-">>)
            /\ bcLast.now - bcLast.cacheBefore[f] >= 2

\* C16: setEnv, runFunction and deploy called on a ConvexBackend whose port
\* is unset fail with "Backend not started" with no fetch made and no
\* subprocess spawned, and leave the fields of the object as they were.
C16_NotStartedFailsFirst ==
    (beLast.made /\ beLast.op \in {"setEnv", "runFunction", "deploy"}
        /\ beLast.before.port = 0) =>
            /\ beLast.outcome = "Backend not started"
            /\ beLast.fetches = 0
            /\ beLast.subprocesses = 0
            /\ beLast.after = beLast.before
            /\ beObj = beLast.before

C16_Witness ==
    /\ beLast.made /\ beLast.op = "deploy"
    /\ beLast.before.port = 0
    /\ beLast.outcome = "Backend not started"
    /\ beDirExists

\* The receiving side of an admin key: the text after the last "|", read as
\* hex, split into version byte, 12-byte nonce and ciphertext with tag.
RECURSIVE LastBar(_)
LastBar(string) ==
    IF string = <<>> THEN 0
    ELSE IF string[Len(string)] = "|" THEN Len(string)
    ELSE LastBar(SubSeq(string, 1, Len(string) - 1))

TokenBytes(adminKey) == fromHex(SubSeq(adminKey, LastBar(adminKey) + 1, Len(adminKey)))

\* Decryption under key, nonce and aad; Failed when the tag does not match.
Failed == <<"failed">>

gcmsivDecrypt(key, nonce, aad, ciphertext) ==
    IF Len(ciphertext) < 16 THEN Failed
    ELSE LET n == Len(ciphertext) - 16
             plaintext == [i \in 1..n |->
                              (ciphertext[i] + 256 - keystream(key, nonce, i)) % 256]
         IN  IF SubSeq(ciphertext, n + 1, n + 16) = authTag(key, nonce, aad, plaintext)
             THEN plaintext ELSE Failed

\* Reading a varint at position pos of a protobuf message.
RECURSIVE readVarint(_, _)
readVarint(bytes, pos) ==
    IF pos > Len(bytes) THEN [ok |-> FALSE, value |-> 0, next |-> pos]
    ELSE IF bytes[pos] >= 128
    THEN LET r == readVarint(bytes, pos + 1)
         IN  [ok |-> r.ok, value |-> (bytes[pos] - 128) + 128 * r.value,
              next |-> r.next]
    ELSE [ok |-> TRUE, value |-> bytes[pos], next |-> pos + 1]

\* Decoding the AdminKeyProto message from pos on: fields 2, 3 and 5 as
\* varints, absent fields at their defaults.
RECURSIVE decodeFrom(_, _, _)
decodeFrom(bytes, pos, fields) ==
    IF pos > Len(bytes) THEN fields
    ELSE LET tag == readVarint(bytes, pos)
             val == readVarint(bytes, tag.next)
         IN  IF ~tag.ok \/ ~val.ok \/ tag.value % 8 # WIRE_TYPE_VARINT
             THEN [fields EXCEPT !.ok = FALSE]
             ELSE decodeFrom(bytes, val.next,
                    IF tag.value \div 8 = 2 THEN [fields EXCEPT !.issuedS = val.value]
                    ELSE IF tag.value \div 8 = 3 THEN [fields EXCEPT !.memberId = val.value]
                    ELSE IF tag.value \div 8 = 5 THEN [fields EXCEPT !.isReadOnly = (val.value # 0)]
                    ELSE fields)

decodeAdminKeyProto(bytes) ==
    IF bytes = Failed THEN [ok |-> FALSE, issuedS |-> 0, memberId |-> 0, isReadOnly |-> FALSE]
    ELSE decodeFrom(bytes, 1, [ok |-> TRUE, issuedS |-> 0, memberId |-> 0,
                               isReadOnly |-> FALSE])

\* What the holder of instanceSecret reads out of adminKey.
Opened(instanceSecret, adminKey) ==
    LET bytes == TokenBytes(adminKey)
        aesKey == kbkdfCtrHmac(fromHex(instanceSecret), ADMIN_KEY_PURPOSE, 16)
    IN  IF Len(bytes) < 13 THEN decodeAdminKeyProto(Failed)
        ELSE decodeAdminKeyProto(
                gcmsivDecrypt(aesKey, SubSeq(bytes, 2, 13), <<1>>,
                              SubSeq(bytes, 14, Len(bytes))))

\* C17: decrypting the adminKey made by generateAdminKey with the key derived
\* from its instanceSecret, with the version byte 1 as associated data and
\* the 12-byte nonce embedded in the token, gives a payload whose fields are
\* the second of generation, the member id passed and the read-only flag
\* passed.
C17_AdminKeyRoundTrip ==
    (akLast.made /\ ~akLast.threw) =>
        LET fields == Opened(akLast.instanceSecret, akLast.adminKey)
        IN  /\ fields.ok
            /\ fields.issuedS * 1000 <= akLast.now
            /\ akLast.now < (fields.issuedS + 1) * 1000
            /\ fields.memberId = akLast.memberId
            /\ fields.isReadOnly = akLast.isReadOnly
            /\ SubSeq(TokenBytes(akLast.adminKey), 2, 13) = akLast.nonce
            /\ TokenBytes(akLast.adminKey)[1] = 1

C17_Witness ==
    /\ akLast.made /\ ~akLast.threw
    /\ akLast.isReadOnly
    /\ akLast.memberId = 300
    /\ akLast.now = 16384000
    /\ akLast.instanceName = <<"a", "|", "b">>
    /\ Len(akLast.adminKey) = 4 + 2 * (1 + 12 + 9 + 16)

\* The number of bytes a string decodes to as hex: its leading pairs of hex
\* digits.
DecodedBytes(string) ==
    CHOOSE n \in 0..(Len(string) \div 2) :
        /\ \A i \in 1..(2 * n) : IsHexDigit(string[i])
        /\ \/ n = Len(string) \div 2
           \/ ~IsHexDigit(string[2 * n + 1])
           \/ ~IsHexDigit(string[2 * n + 2])

\* C18: generateAdminKey throws "Instance secret must be 32 bytes", and
\* returns no key, whenever the secret passed does not decode to exactly 32
\* bytes, and does not throw it when the secret decodes to exactly 32 bytes.
C18_InvalidSecretLength ==
    akLast.made =>
        /\ akLast.threw <=> DecodedBytes(akLast.instanceSecret) # 32
        /\ akLast.threw => akLast.adminKey = <<>>
        /\ ~akLast.threw => akLast.adminKey # <<>>
        /\ akLast.secretLength = DecodedBytes(akLast.instanceSecret)

C18_Witness ==
    /\ akLast.made /\ akLast.threw
    /\ Len(akLast.instanceSecret) = 64
    /\ akLast.secretLength = 31

\* C19: over plugin starts, Vite restarts, server closes and exits on a
\* signal, in one host process after another, the state directory
\* .convex/<state-id> is removed only by the reset at a start, with
\* options.reset set: the restart kill, the exit handlers and the close of
\* the server leave it in place.
C19_StateDirRemovedOnlyOnReset ==
    /\ [](\A r \in lcRemovals : r.by = "reset" /\ r.reset)
    /\ [][lcDirExists => lcDirExists']_vars

C19_Witness ==
    /\ lcPlugin = "backend.ts"
    /\ lcHosts = 2
    /\ {"restart kill", "exit handler", "server close"} \subseteq lcSeen
    /\ lcRemovals # {}
    /\ lcDirExists

\* C20: however many times the plugin is initialized in one host process,
\* it has registered at most one SIGINT handler and at most one SIGTERM
\* handler.
C20_NoDuplicateSignalHandlers ==
    /\ Len(lcSigint) <= 1
    /\ Len(lcSigterm) <= 1

\* C21: once stop has run on a started backend, a further stop, with either
\* value of cleanup, completes without an error and does nothing more: no
\* signal, no warning, no removal.
C21_StopIdempotent ==
    (beLast.made /\ beLast.op = "stop" /\ beLast.stopped) =>
        /\ beLast.outcome = "ok"
        /\ beLast.signals = 0
        /\ ~beLast.warned
        /\ beLast.removals = 0

\* C22: the port and the site-proxy port a backend is launched with differ,
\* whether they are searched for or given through options.port and
\* options.siteProxyPort.
C22_PortsDistinct ==
    lcPort # 0 => lcPort # lcSiteProxyPort

\* C23: for the key module.function, isIgnored is true when the patterns
\* hold "module.*", when they hold "module.function", and when they hold the
\* bare "function".
C23_IgnorePatterns ==
    igLast.made =>
        /\ (igLast.module \o <<".", "*">>) \in igLast.patterns => igLast.result
        /\ (igLast.module \o <<".">> \o igLast.function) \in igLast.patterns
                => igLast.result
        /\ igLast.function \in igLast.patterns => igLast.result

\* C24: when the health check times out startBackend fails, has sent the
\* child no signal and keeps the process on the object; the child that was
\* spawned runs on, and a later stop() signals its pid.
C24_TimedOutChildKept ==
    /\ (beLast.made /\ beLast.op = "startBackend" /\ beLast.outcome = "Timed out") =>
            /\ beLast.after.spawned
            /\ beLast.signals = 0
            /\ beLast.childAfter = (beLast.after.pid # 0)
            /\ beObj = beLast.after
    /\ (beLast.made /\ beLast.op = "stop" /\ beLast.started = "Timed out"
            /\ beLast.before.pid # 0) =>
            /\ beLast.signals = 1
            /\ beLast.childBefore /\ ~beLast.warned => beLast.killed

C24_Witness ==
    /\ beLast.made /\ beLast.op = "stop"
    /\ beLast.started = "Timed out"
    /\ ~beLast.stopped
    /\ beLast.childBefore
    /\ beLast.killed

\* C26: when the health check succeeds and the spawned child has no pid,
\* startBackend fails with "Convex process failed to start - no PID
\* assigned"; no startBackend completes with a process without a pid.
C26_NoPidFailsStart ==
    (beLast.made /\ beLast.op = "startBackend") =>
        /\ (beLast.healthOk /\ beLast.after.pid = 0)
                => beLast.outcome = "no PID assigned"
        /\ beLast.outcome = "ok" => (beLast.after.spawned /\ beLast.after.pid # 0)

C26_Witness ==
    /\ beLast.made /\ beLast.op = "startBackend"
    /\ beLast.healthOk
    /\ beLast.after.spawned
    /\ beLast.after.pid = 0
    /\ beLast.outcome = "no PID assigned"

\* C25: waitForHttpOk returns on a probe exactly when its response has a
\* status from 200 to 399; after a 1xx, 4xx or 5xx response or a rejected
\* fetch it goes on to sleep before another probe or throws the time-out.
C25_ReadyOn2xxOr3xx ==
    /\ [](hcPc = "returned" => hcStatus \in 200..399)
    /\ [][hcPc = "probe" /\ hcPc' # "probe" =>
            /\ hcPc' = "returned" <=> hcStatus' \in 200..399
            /\ hcStatus' \notin 200..399 => hcPc' \in {"sleep", "timedOut"}]_vars

C25_Witness ==
    /\ hcPc = "returned"
    /\ hcStatus = 302
    /\ hcAttempts >= 2

\* C27: stop on a backend with a process id sends it one termination
\* signal; a signal that fails is warned about, not raised, and the purge
\* still follows; with cleanup the backend directory is removed, without
\* cleanup it is left alone; stop fails exactly when that removal fails.
C27_StopSignalsThenPurges ==
    (beLast.made /\ beLast.op = "stop" /\ beLast.before.pid # 0) =>
        /\ beLast.signals = 1
        /\ beLast.warned <=> ~beLast.killed
        /\ beLast.removals = (IF beLast.cleanup THEN 1 ELSE 0)
        /\ beLast.outcome = "failed" <=> (beLast.cleanup /\ ~beLast.removed)
        /\ beLast.outcome \in {"ok", "failed"}
        /\ beLast.removed => ~beDirExists
        /\ ~beLast.cleanup => beDirExists = beLast.dirBefore

C27_Witness ==
    /\ beLast.made /\ beLast.op = "stop" /\ beLast.before.pid # 0
    /\ beLast.warned
    /\ beLast.cleanup
    /\ beLast.removed
    /\ beLast.outcome = "ok"

\* C28: computeStateId returns an identity whatever git does, and whenever
\* the branch could not be read (not a repository, git missing, a non-zero
\* exit, empty output) the branch it works with is "unknown": the digest
\* input and the identity both start with it.
C28_UnreadBranchIsUnknown ==
    sidLast.made =>
        /\ Len(sidLast.id) >= 18
        /\ (sidLast.git.status # 0 \/ sidLast.git.stdout = <<>>) =>
               /\ sidLast.branch = <<"u", "n", "k", "n", "o", "w", "n">>
               /\ SubSeq(sidLast.input, 1, 8)
                    = <<"u", "n", "k", "n", "o", "w", "n", ":">>
               /\ SubSeq(sidLast.id, 1, 8)
                    = <<"u", "n", "k", "n", "o", "w", "n", "-">>

C28_Witness ==
    /\ sidLast.made /\ sidPrev.made
    /\ sidPrev.git = [status |-> 1, stdout |-> <<"a", "\n">>]
    /\ sidLast.git = [status |-> 0, stdout |-> <<>>]
    /\ sidPrev.branch = <<"u", "n", "k", "n", "o", "w", "n">>
    /\ sidLast.branch = sidPrev.branch
    /\ sidPrev.projectDir = sidLast.projectDir
    /\ sidPrev.suffix = sidLast.suffix
    /\ sidPrev.id = sidLast.id

\* The binary of the release version the call resolved from the index.
ResolvedBinary == BinaryName(bcLast.resolved, bcWindows)

\* C29: a downloadConvexBinary call that consults the release index and
\* finds the binary of the resolved version in the cache directory sets that
\* file's mtime to now, changes nothing else, and returns it with no download
\* and no extraction; and a call that follows such a call within its
\* cacheTtlMs is answered from the cache with no release-index query.
C29_ExistingVersionTouched ==
    /\ (bcLast.made /\ bcLast.indexQueries = 1 /\ bcLast.resolved # <<>>
            /\ bcLast.cacheBefore[ResolvedBinary] >= 0) =>
                /\ bcLast.outcome = "touched"
                /\ bcLast.path = ResolvedBinary
                /\ bcLast.cacheAfter
                     = [bcLast.cacheBefore EXCEPT ![ResolvedBinary] = bcLast.now]
                /\ bcLast.downloads = 0
                /\ bcLast.extractions = 0
    /\ (bcLast.made /\ bcLast.touchedAt > 0 /\ bcLast.cacheTtlMs > 0
            /\ bcLast.now - bcLast.touchedAt < bcLast.cacheTtlMs) =>
                /\ bcLast.outcome = "cached"
                /\ bcLast.cacheBefore[bcLast.path] = bcLast.touchedAt
                /\ bcLast.indexQueries = 0
                /\ bcLast.downloads = 0
                /\ bcLast.extractions = 0

\* An existing binary is touched at time 2, and a call with cacheTtlMs 2 one
\* tick later is answered with it from the cache.
C29_Witness ==
    /\ bcLast.made
    /\ bcLast.touchedAt = 2
    /\ bcLast.now = 3
    /\ bcLast.cacheTtlMs = 2
    /\ bcLast.outcome = "cached"
    /\ bcLast.cacheBefore[bcLast.path] = 2

\* The releases of the latest findAsset call that hold an asset whose name
\* includes the platform target, by position in the index.
MatchingReleases ==
    {i \in 1..Len(faLast.releases) :
        \E k \in 1..Len(faLast.releases[i].assets) :
            Includes(faLast.releases[i].assets[k], Target)}

\* C30: findAsset fails (asset not found) exactly when no release of the
\* index holds an asset whose name includes the platform target; otherwise
\* it returns the tag of the first such release in index order and the first
\* matching asset of that release, whatever the later releases hold.
C30_FirstMatchingRelease ==
    faLast.made =>
        /\ faLast.found <=> MatchingReleases # {}
        /\ faLast.found =>
            LET first == CHOOSE i \in MatchingReleases :
                            \A j \in MatchingReleases : i <= j
                assets == faLast.releases[first].assets
            IN  /\ faLast.version = faLast.releases[first].tag_name
                /\ \E k \in 1..Len(assets) :
                        /\ faLast.asset = assets[k]
                        /\ Includes(assets[k], Target)
                        /\ \A h \in 1..(k - 1) : ~Includes(assets[h], Target)

\* The first release holds no matching asset, the second and the third both
\* do, under different tags: the second is taken.
C30_Witness ==
    /\ faLast.made
    /\ Len(faLast.releases) = 3
    /\ MatchingReleases = {2, 3}
    /\ faLast.releases[2].tag_name # faLast.releases[3].tag_name
    /\ faLast.releases[2].assets = <<SumsName, ZipName>>
    /\ faLast.found
    /\ faLast.version = faLast.releases[2].tag_name
    /\ faLast.asset = SumsName

\* 128^n
RECURSIVE Pow128(_)
Pow128(n) == IF n = 0 THEN 1 ELSE 128 * Pow128(n - 1)

\* The value a protobuf reader decodes from a varint: the low seven bits of
\* each byte, least significant group first.
RECURSIVE DecodeVarint(_)
DecodeVarint(bytes) ==
    IF bytes = <<>> THEN 0
    ELSE (bytes[1] % 128) + 128 * DecodeVarint(Tail(bytes))

\* C31: encodeVarint(v) for v >= 0 is a non-empty sequence of bytes whose
\* i-th byte carries the i-th 7-bit group of v, least significant first;
\* every byte but the last has the continuation bit 0x80 set and the last
\* has it clear; the last group is not zero unless it is the only one;
\* decoding the bytes gives v, and 0 encodes to the single byte 0x00.
C31_VarintEncoding ==
    viLast.made =>
        LET bytes == viLast.bytes
            v == viLast.value
            n == Len(bytes)
        IN  /\ n >= 1
            /\ \A i \in 1..n :
                    /\ bytes[i] \in 0..255
                    /\ bytes[i] % 128 = (v \div Pow128(i - 1)) % 128
                    /\ (bytes[i] >= 128) <=> (i < n)
            /\ n > 1 => bytes[n] # 0
            /\ DecodeVarint(bytes) = v
            /\ v = 0 => bytes = <<0>>

\* 16384 = 2^14 takes three bytes: 0x80 0x80 0x01.
C31_Witness ==
    /\ viLast.made
    /\ viLast.value = 16384
    /\ viLast.bytes = <<128, 128, 1>>

\* backend.waitForReady() has resolved.
HealthCheckSucceeded == \E k \in 1..Len(steps) : steps[k] = <<"healthOk", 0>>

\* Every configured environment variable has been set.
EveryEnvVarSet ==
    \A i \in 1..nEnv : \E k \in 1..Len(steps) : steps[k] = <<"setEnvOk", i>>

\* C32: no backend.deploy() runs before the health check has succeeded and
\* every configured environment variable has been set, whatever the
\* interleaving of file changes with the startup.
C32_NoDeployBeforeReady ==
    inProgress > 0 => HealthCheckSucceeded /\ EveryEnvVarSet

\* C33: a watched file change that arrives while the backend port is set is
\* followed by the start of a backend.deploy(), whether it arrived with no
\* timer pending, with the debounce timer pending, or while a deploy was
\* running.
C33_NoLostUpdate == (unserved /\ backendPort) ~> ~unserved

\* With the blocking deploy of src: a deploy has returned, a watched change
\* came after it, and the timer's deploy() has begun the next one.
C33_Witness ==
    /\ deployBlocks = SyncDeploy
    /\ ~unserved
    /\ timeoutId = "fired"
    /\ lastReturn.made
    /\ lastReq.made /\ lastReq.port /\ ~lastReq.inFlight /\ lastReq.started
    /\ executor = "timer"
    /\ inProgress = 1

\* C34: the coordinator starts with isDeploying and pendingDeploy both false;
\* pendingDeploy is true only while a backend.deploy() is running; isDeploying
\* is true exactly while one is running; so with no deploy running both flags
\* are false, whatever requests, successes and failures came before.
C34_CoordinatorFlags ==
    /\ (~lastReq.made /\ ~lastReturn.made) =>
            (~isDeploying /\ ~pendingDeploy /\ inProgress = 0)
    /\ pendingDeploy => inProgress > 0
    /\ isDeploying <=> inProgress > 0
    /\ inProgress = 0 => (~isDeploying /\ ~pendingDeploy)

\* With the blocking deploy of src: a deploy requested by the timer has
\* failed, and the coordinator is idle with both flags false.
C34_Witness ==
    /\ deployBlocks = SyncDeploy
    /\ lastReq.made /\ lastReq.started
    /\ lastReturn.made /\ ~lastReturn.ok /\ lastReturn.by = "timer"
    /\ inProgress = 0
    /\ ~isDeploying /\ ~pendingDeploy

\* The latest path lies under <convexDir>/_generated/.
UnderGenerated ==
    StartsWith(swLast.relativePath, ConvexDir \o <<"/", "_", "g", "e", "n", "e", "r", "a", "t", "e", "d", "/">>)

\* The latest path is a .ts file under <convexDir>/, at any depth.
TsUnderConvexDir ==
    /\ StartsWith(swLast.relativePath, ConvexDir \o <<"/">>)
    /\ Len(swLast.relativePath) > Len(ConvexDir) + 4
    /\ SubSeq(swLast.relativePath, Len(swLast.relativePath) - 2,
              Len(swLast.relativePath)) = <<".", "t", "s">>

\* C35: under the default watch and ignore patterns, shouldWatch is false for
\* every path under <convexDir>/_generated/ and true for every .ts file
\* elsewhere under <convexDir>, at any depth.
C35_GeneratedNeverWatched ==
    swLast.made =>
        /\ UnderGenerated => ~swLast.result
        /\ (TsUnderConvexDir /\ ~UnderGenerated) => swLast.result

\* C36: when the host process of the plugin of backend.ts has exited on
\* SIGINT or SIGTERM, no backend child that the plugin spawned in it is
\* left running: each one that was not killed before was sent a kill
\* signal by handleExit.
C36_NoOrphanOnExit ==
    (lcPlugin = "backend.ts" /\ lcHosts = 1 /\ lcHost = "exited") => lcAlive = {}

\* C37: in one host process of the plugin of backend.ts, once the
\* setImmediate callbacks of config have run, at most one backend child
\* runs, and when the current instance has started its backend no child of
\* an instance before it runs.
C37_OneBackendAcrossRestarts ==
    (lcPlugin = "backend.ts" /\ lcHosts = 1 /\ lcHost = "running" /\ lcKillQueue = {}) =>
        /\ Cardinality(lcAlive) <= 1
        /\ lcHook = "started" => lcAlive \subseteq {Current}

\* The keys of a start are the caller's when instanceSecret and adminKey are
\* both given, and a newly generated pair otherwise.
CallerOrGenerated ==
    IF ksLast.instanceSecret # Undefined /\ ksLast.adminKey # Undefined
    THEN /\ ~ksLast.generated
         /\ ksKeys.instanceSecret = ksLast.instanceSecret
         /\ ksKeys.adminKey = ksLast.adminKey
    ELSE /\ ksLast.generated
         /\ ksKeys.instanceSecret = <<"generated", ksFresh>>
         /\ ksKeys.adminKey = <<"generated", ksFresh>>

\* C38: a start that finds keys.json unreadable or unparseable does not fail:
\* it goes as with no keys.json, takes the caller's secret and admin key if
\* both are given and a newly generated pair otherwise, and leaves them
\* written in keys.json.
C38_DamagedKeysNeverFailStartup ==
    (ksLast.made /\ ksLast.fileBefore.kind \in {"unreadable", "unparseable"}) =>
        /\ ~ksLast.threw
        /\ ksLast.wrote
        /\ ksLast.fileAfter = [kind |-> "keys", keys |-> ksKeys]
        /\ ksKeys.instanceName = NameOrDefault(ksLast.instanceName)
        /\ CallerOrGenerated

\* The start loaded the persisted keys: keys.json parsed and no reset.
LoadedPersistedKeys == ksLast.fileBefore.kind = "keys" /\ ~ksLast.reset

\* Exactly one of options.instanceSecret and options.adminKey was given.
ExactlyOneSupplied ==
    (ksLast.instanceSecret # Undefined) # (ksLast.adminKey # Undefined)

\* C39: after a key resolution that ran to its end, the keys are the
\* caller's only if instanceSecret and adminKey were both given; with exactly
\* one given and no persisted keys loaded, the given value is in neither key
\* and a newly generated matching pair is in both; and in every case
\* keys.json holds the keys in use.
C39_CallerKeysOnlyWhenBoth ==
    (ksLast.made /\ ~ksLast.threw) =>
        /\ (ksLast.wrote /\ ~ksLast.generated) =>
                /\ ksLast.instanceSecret # Undefined /\ ksLast.adminKey # Undefined
                /\ ksKeys.instanceSecret = ksLast.instanceSecret
                /\ ksKeys.adminKey = ksLast.adminKey
        /\ (ExactlyOneSupplied /\ ~LoadedPersistedKeys) =>
                /\ ksLast.generated /\ ksLast.wrote
                /\ ksKeys.instanceSecret = <<"generated", ksFresh>>
                /\ ksKeys.adminKey = <<"generated", ksFresh>>
                /\ ksLast.instanceSecret \notin {ksKeys.instanceSecret, ksKeys.adminKey}
                /\ ksLast.adminKey \notin {ksKeys.instanceSecret, ksKeys.adminKey}
        /\ ksLast.fileAfter = [kind |-> "keys", keys |-> ksKeys]

C39_Witness ==
    /\ ksLast.made /\ ~ksLast.threw /\ ~ksLast.reset
    /\ ksLast.instanceSecret # Undefined
    /\ ksLast.adminKey = Undefined
    /\ ksLast.fileBefore.kind = "absent"
    /\ ksLast.generated /\ ksLast.wrote
    /\ ksKeys.instanceSecret = <<"generated", 1>>
    /\ ksFile = [kind |-> "keys", keys |-> ksKeys]

====
